---- MODULE Spec2Model ----
(***************************************************************************)
(* A model of the media acquisition and reassembly pipeline of the video   *)
(* downloader: the playlist/segment filter and the header reconstruction   *)
(* of HeadlessBrowserDownloader, the download batch, the external ffmpeg   *)
(* invocations, the .ts segment reassembly and the audio/video muxing of   *)
(* downloader/utils.py.                                                    *)
(*                                                                         *)
(* Text (URLs, header names, file names) is a sequence of one-character    *)
(* strings, so that lower(), startswith(), endswith(), `in`, urlparse and  *)
(* the regular expressions of the source are computed character by         *)
(* character.  Python's None and the empty string, which the source only   *)
(* ever tests for truthiness, are both the empty sequence.                 *)
(***************************************************************************)
EXTENDS Integers, Sequences, FiniteSets, TLC

VARIABLES
    \* HeadlessBrowserDownloader.download_videos: classification and filter
    video_urls, m3u8_base_paths, filtered_urls, refiltered_urls, stage,
    \* HeadlessBrowserDownloader: the page, the user agent, and one call of
    \* _prepare_download_headers (its argument and its result)
    target_url, target_origin, user_agent, raw_headers, headers, hstage,
    \* the capture of responses: self.video_urls, self.video_request_meta,
    \* the position of the _handle_response task of every response, and the
    \* headers_map of download_videos
    self_video_urls, video_request_meta, responses, headers_map,
    \* the files that exist in the output directory
    disk,
    \* download_videos (utils) and the download loop of the headless mode: the
    \* URL list, the loop index, the result list, and for every item tried so
    \* far what its fetch or ffmpeg run did
    batch_urls, batch_i, downloaded_files, outcomes, bstage,
    \* one invocation of ffmpeg or ffprobe: the invoking function, its
    \* position, the child process, the blocks of progress output in the
    \* child's stdout pipe, the lines in stderr_queue, the lines collected in
    \* stderr_lines, and the value returned
    invocation, tpc, process, stdout_pipe, stderr_queue, stderr_lines, returned,
    \* detect_and_merge_ts_files: its downloaded_files argument, ts_groups in
    \* insertion order, the number of groups processed, the sorted files and
    \* the output path of each processed group, merged_files, and the stage
    ts_downloaded, ts_groups, group_i, sorted_by_group, output_paths,
    merged_files, mstage,
    \* auto_mux_downloads: its downloaded_files argument, the number of files
    \* probed, the profile of the file probed last, video_only, audio_only,
    \* audio_map in insertion order, the
    \* position in video_only, the pairs handed to mux_streams, muxed_files,
    \* and the stage
    mux_downloaded, probe_i, profile, video_only, audio_only, audio_map, video_idx,
    pairs, muxed_files, xstage,
    \* one run of main in headless mode: the position of the program in
    \* HeadlessBrowserDownloader.download_videos, and what has become of a
    \* SIGINT sent to the program
    pipeline, sigint

filterVars == <<video_urls, m3u8_base_paths, filtered_urls, refiltered_urls, stage>>
captureVars == <<self_video_urls, video_request_meta, responses, headers_map>>
headerVars == <<target_url, target_origin, user_agent, raw_headers, headers, hstage,
                captureVars>>
batchVars == <<batch_urls, batch_i, downloaded_files, outcomes, bstage>>
toolVars == <<invocation, tpc, process, stdout_pipe, stderr_queue, stderr_lines, returned>>
mergeVars == <<ts_downloaded, ts_groups, group_i, sorted_by_group, output_paths,
               merged_files, mstage>>
muxVars == <<mux_downloaded, probe_i, profile, video_only, audio_only, audio_map, video_idx,
             pairs, muxed_files, xstage>>

runVars == <<pipeline, sigint>>

vars == <<filterVars, headerVars, disk, batchVars, toolVars, mergeVars, muxVars, runVars>>

\* what the actions of one part leave alone
exceptFilter == <<headerVars, disk, batchVars, toolVars, mergeVars, muxVars, runVars>>
exceptHeaders == <<filterVars, disk, batchVars, toolVars, mergeVars, muxVars, runVars>>
exceptBatch == <<filterVars, headerVars, toolVars, mergeVars, muxVars, runVars>>
exceptTool == <<filterVars, headerVars, disk, batchVars, mergeVars, muxVars, runVars>>
exceptMerge == <<filterVars, headerVars, batchVars, toolVars, muxVars, runVars>>
exceptMux == <<filterVars, headerVars, batchVars, toolVars, mergeVars, runVars>>

(***************************************************************************)
(* Bounds of the model.                                                    *)
(***************************************************************************)
MaxUrls == 3
MaxHeaders == 2
MaxBatch == 3
PipeCapacity == 3
MaxStderrLines == 2
MaxTs == 4
MaxMedia == 4
MaxClassify == 2

\* no run of the whole program is modelled
RunIdle ==
    /\ pipeline = "idle"
    /\ sigint = "none"

(***************************************************************************)
(* Text helpers: Python's str methods on sequences of characters.          *)
(***************************************************************************)
UpperAlpha == <<"A","B","C","D","E","F","G","H","I","J","K","L","M",
                "N","O","P","Q","R","S","T","U","V","W","X","Y","Z">>
LowerAlpha == <<"a","b","c","d","e","f","g","h","i","j","k","l","m",
                "n","o","p","q","r","s","t","u","v","w","x","y","z">>
Digits == {"0","1","2","3","4","5","6","7","8","9"}

Range(s) == {s[i] : i \in DOMAIN s}

IsUpperChar(c) == \E i \in DOMAIN UpperAlpha : UpperAlpha[i] = c
IsLowerChar(c) == \E i \in DOMAIN LowerAlpha : LowerAlpha[i] = c
IsAlphaChar(c) == IsUpperChar(c) \/ IsLowerChar(c)

LowerChar(c) ==
    IF IsUpperChar(c)
    THEN LowerAlpha[CHOOSE i \in DOMAIN UpperAlpha : UpperAlpha[i] = c]
    ELSE c

UpperChar(c) ==
    IF IsLowerChar(c)
    THEN UpperAlpha[CHOOSE i \in DOMAIN LowerAlpha : LowerAlpha[i] = c]
    ELSE c

\* str.lower()
Lower(s) == [i \in DOMAIN s |-> LowerChar(s[i])]

\* str.startswith(p)
StartsWith(s, p) == Len(p) <= Len(s) /\ SubSeq(s, 1, Len(p)) = p

\* str.endswith(p)
EndsWith(s, p) ==
    Len(p) <= Len(s) /\ SubSeq(s, Len(s) - Len(p) + 1, Len(s)) = p

\* p in s
Contains(s, p) ==
    \E i \in 1..(Len(s) - Len(p) + 1) : SubSeq(s, i, i + Len(p) - 1) = p

\* str.find(c) for a single character, 1-based; 0 when absent
Find(s, c) ==
    IF \E i \in DOMAIN s : s[i] = c
    THEN CHOOSE i \in DOMAIN s : s[i] = c /\ \A j \in 1..(i - 1) : s[j] # c
    ELSE 0

\* str.rfind(c) for a single character, 1-based; 0 when absent
RFind(s, c) ==
    IF \E i \in DOMAIN s : s[i] = c
    THEN CHOOSE i \in DOMAIN s : s[i] = c /\ \A j \in (i + 1)..Len(s) : s[j] # c
    ELSE 0

\* the first position of any character of cs in s, or Len(s) + 1
FindAny(s, cs) ==
    IF \E i \in DOMAIN s : s[i] \in cs
    THEN CHOOSE i \in DOMAIN s : s[i] \in cs /\ \A j \in 1..(i - 1) : s[j] \notin cs
    ELSE Len(s) + 1

\* all finite sequences over S of length at most n
SeqsUpTo(S, n) == UNION {[1..k -> S] : k \in 0..n}

(***************************************************************************)
(* urllib.parse.urlparse, as far as the source uses it: scheme, netloc and *)
(* path.                                                                   *)
(***************************************************************************)
SchemeChars == Range(UpperAlpha) \cup Range(LowerAlpha) \cup Digits \cup {"+", "-", "."}

\* url[:i] is a scheme: i > 0, a letter first, then only scheme characters
SchemeLenAt(url, i) ==
    IF i > 1 /\ IsAlphaChar(url[1]) /\ \A j \in 1..(i - 1) : url[j] \in SchemeChars
    THEN i - 1
    ELSE 0

\* the length of the scheme of url, 0 when it has none
SchemeLen(url) == SchemeLenAt(url, Find(url, ":"))

UrlScheme(url) == Lower(SubSeq(url, 1, SchemeLen(url)))

DropScheme(url, n) == IF n > 0 THEN SubSeq(url, n + 2, Len(url)) ELSE url

\* url without "scheme:"
AfterScheme(url) == DropScheme(url, SchemeLen(url))

\* the netloc that starts t, up to the first of / ? #
NetlocIn(t) == SubSeq(t, 1, FindAny(t, {"/", "?", "#"}) - 1)

\* t without the netloc that starts it
AfterNetloc(t) == SubSeq(t, FindAny(t, {"/", "?", "#"}), Len(t))

\* t without its query and fragment
CutQuery(t) == SubSeq(t, 1, FindAny(t, {"?", "#"}) - 1)

NetlocOf(r) ==
    IF StartsWith(r, <<"/", "/">>) THEN NetlocIn(SubSeq(r, 3, Len(r))) ELSE <<>>

PathOf(r) ==
    CutQuery(IF StartsWith(r, <<"/", "/">>) THEN AfterNetloc(SubSeq(r, 3, Len(r))) ELSE r)

UrlNetloc(url) == NetlocOf(AfterScheme(url))

UrlPath(url) == PathOf(AfterScheme(url))

(***************************************************************************)
(* Text constants of the source.                                           *)
(***************************************************************************)
ExtM3u8 == <<".", "m", "3", "u", "8">>
ExtTs == <<".", "t", "s">>
ExtMp4 == <<".", "m", "p", "4">>

(***************************************************************************)
(* Sample URLs the browser can capture.                                    *)
(***************************************************************************)
DirA == <<"/", "a", "/">>
UrlPlaylistA == DirA \o <<"i">> \o ExtM3u8
UrlSeg0A == DirA \o <<"s", "0">> \o ExtTs
UrlSeg1A == DirA \o <<"s", "1">> \o ExtTs
UrlSegQueryA == DirA \o <<"s", "2">> \o ExtTs \o <<"?", "t", "=", "1">>
UrlSegUpperA == DirA \o <<"S", "3", ".", "T", "S">>
UrlSegB == <<"/", "b", "/", "s", "0">> \o ExtTs
UrlMp4A == DirA \o <<"v">> \o ExtMp4
UrlPlaylistHttp == <<"h", "t", "t", "p", ":", "/", "/", "h">> \o DirA \o <<"j">> \o ExtM3u8
UrlPlaylistBare == <<"i">> \o ExtM3u8
UrlPlaylistTsQuery == DirA \o <<"k">> \o ExtM3u8 \o <<"?", "f", "=">> \o ExtTs
RelPlaylist == <<"a", "/", "i", "n", "d", "e", "x">> \o ExtM3u8
RelSeg0 == <<"a", "/", "s", "e", "g", "0">> \o ExtTs
RelSeg1 == <<"a", "/", "s", "e", "g", "1">> \o ExtTs

UrlSamples ==
    { UrlPlaylistA, UrlSeg0A, UrlSeg1A, UrlSegQueryA, UrlSegUpperA, UrlSegB,
      UrlMp4A, UrlPlaylistHttp, UrlPlaylistBare, UrlPlaylistTsQuery,
      RelPlaylist, RelSeg0, RelSeg1 }

(***************************************************************************)
(* HeadlessBrowserDownloader.download_videos: playlist detection and the   *)
(* filter of the .ts URLs that belong to a detected playlist.              *)
(***************************************************************************)
\* '.m3u8' in url.lower()
IsM3u8Url(url) == Contains(Lower(url), ExtM3u8)

\* path[:path.rfind('/') + 1]
DirOfPath(path) == SubSeq(path, 1, RFind(path, "/"))

BasePathOf(url) == DirOfPath(UrlPath(url))

\* the first loop: the base paths of the playlists whose path holds a '/'
M3u8BasePaths(urls) ==
    { BasePathOf(urls[i]) :
        i \in {j \in DOMAIN urls : IsM3u8Url(urls[j]) /\ Contains(UrlPath(urls[j]), <<"/">>)} }

\* url.lower().endswith('.ts')
IsTsUrl(url) == EndsWith(Lower(url), ExtTs)

\* is_part_of_m3u8 of the second loop
IsPartOfM3u8(url, bases) ==
    IsTsUrl(url) /\ \E base_path \in bases : StartsWith(UrlPath(url), base_path)

RECURSIVE FilterLoop(_, _)
FilterLoop(urls, bases) ==
    IF urls = <<>> THEN <<>>
    ELSE IF IsPartOfM3u8(Head(urls), bases)
         THEN FilterLoop(Tail(urls), bases)
         ELSE <<Head(urls)>> \o FilterLoop(Tail(urls), bases)

\* the second loop removes from the list it iterates over: the element after a
\* removed one is skipped
RECURSIVE FilterLoopRemovingInPlace(_, _)
FilterLoopRemovingInPlace(urls, bases) ==
    IF urls = <<>> THEN <<>>
    ELSE IF IsPartOfM3u8(Head(urls), bases)
         THEN IF Len(urls) = 1 THEN <<>>
              ELSE <<urls[2]>> \o FilterLoopRemovingInPlace(Tail(Tail(urls)), bases)
         ELSE <<Head(urls)>> \o FilterLoopRemovingInPlace(Tail(urls), bases)

FilterUrlsRemovingInPlace(urls) == FilterLoopRemovingInPlace(urls, M3u8BasePaths(urls))

\* filtered_urls of download_videos for the input video_urls
FilterUrls(urls) == FilterLoop(urls, M3u8BasePaths(urls))

FilterIdle ==
    /\ video_urls = <<>>
    /\ m3u8_base_paths = {}
    /\ filtered_urls = <<>>
    /\ refiltered_urls = <<>>
    /\ stage = "idle"

\* download_videos returns at once for an empty list
ReturnNoUrls ==
    /\ stage = "start"
    /\ video_urls = <<>>
    /\ stage' = "done"
    /\ UNCHANGED <<video_urls, m3u8_base_paths, filtered_urls, refiltered_urls>>
    /\ UNCHANGED exceptFilter

\* the two loops of download_videos up to filtered_urls
ClassifyAndFilter ==
    /\ stage = "start"
    /\ video_urls # <<>>
    /\ m3u8_base_paths' = M3u8BasePaths(video_urls)
    /\ filtered_urls' = FilterUrls(video_urls)
    /\ stage' = "filtered"
    /\ UNCHANGED <<video_urls, refiltered_urls>>
    /\ UNCHANGED exceptFilter

\* the same classification and filter, run on the filtered list
Refilter ==
    /\ stage = "filtered"
    /\ refiltered_urls' = FilterUrls(filtered_urls)
    /\ stage' = "refiltered"
    /\ UNCHANGED <<video_urls, m3u8_base_paths, filtered_urls>>
    /\ UNCHANGED exceptFilter

(***************************************************************************)
(* HeadlessBrowserDownloader._prepare_download_headers.                    *)
(* raw_headers is the captured dict in its iteration order: a sequence of  *)
(* <<name, value>> with distinct names.  The result, a dict, is a function *)
(* from its keys to their values.                                          *)
(***************************************************************************)
NameAccept == <<"a", "c", "c", "e", "p", "t">>
NameAcceptEncoding == NameAccept \o <<"-", "e", "n", "c", "o", "d", "i", "n", "g">>
NameAcceptLanguage == NameAccept \o <<"-", "l", "a", "n", "g", "u", "a", "g", "e">>
NameRange == <<"r", "a", "n", "g", "e">>
NameUserAgent == <<"u", "s", "e", "r", "-", "a", "g", "e", "n", "t">>
NameCookie == <<"c", "o", "o", "k", "i", "e">>
NameReferer == <<"r", "e", "f", "e", "r", "e", "r">>
NameOrigin == <<"o", "r", "i", "g", "i", "n">>
SecFetch == <<"s", "e", "c", "-", "f", "e", "t", "c", "h", "-">>
NameSecFetchSite == SecFetch \o <<"s", "i", "t", "e">>
NameSecFetchMode == SecFetch \o <<"m", "o", "d", "e">>
NameSecFetchDest == SecFetch \o <<"d", "e", "s", "t">>

\* allowed
Allowed ==
    { NameAccept, NameAcceptEncoding, NameAcceptLanguage, NameRange,
      NameUserAgent, NameCookie, NameReferer, NameOrigin,
      NameSecFetchSite, NameSecFetchMode, NameSecFetchDest }

KeyReferer == <<"R", "e", "f", "e", "r", "e", "r">>
KeyOrigin == <<"O", "r", "i", "g", "i", "n">>
KeyUserAgent == <<"U", "s", "e", "r", "-", "A", "g", "e", "n", "t">>
KeyRange == <<"R", "a", "n", "g", "e">>
KeyAccept == <<"A", "c", "c", "e", "p", "t">>
KeyAcceptEncoding == KeyAccept \o <<"-", "E", "n", "c", "o", "d", "i", "n", "g">>

ValBytesAll == <<"b", "y", "t", "e", "s", "=", "0", "-">>
ValAnyType == <<"*", "/", "*">>
ValIdentity == <<"i", "d", "e", "n", "t", "i", "t", "y">>
\* DEFAULT_CHROMIUM_USER_AGENT, shortened to its first word
DefaultChromiumUserAgent == <<"M", "o", "z", "i", "l", "l", "a", "/", "5", ".", "0">>

\* a key that is only lower-cased
NormalizeKeyLowerOnly(lower_key) == lower_key

\* "-".join(part.capitalize() for part in lower_key.split("-")): the first
\* character of every part in upper case, the others in lower case
NormalizeKey(lower_key) ==
    [i \in DOMAIN lower_key |->
        IF i = 1 \/ lower_key[i - 1] = "-"
        THEN UpperChar(lower_key[i])
        ELSE LowerChar(lower_key[i])]

\* if lower_key in allowed and value
Retained(key, value) == Lower(key) \in Allowed /\ value # <<>>

\* headers[k] = v
DictSet(h, k, v) == [x \in DOMAIN h \cup {k} |-> IF x = k THEN v ELSE h[x]]

\* headers.setdefault(k, v)
SetDefault(h, k, v) == IF k \in DOMAIN h THEN h ELSE DictSet(h, k, v)

EmptyDict == [x \in {} |-> <<>>]

\* the loop over raw_headers.items()
RECURSIVE RetainLoop(_, _)
RetainLoop(raw, h) ==
    IF raw = <<>> THEN h
    ELSE LET key == Head(raw)[1]
             value == Head(raw)[2]
         IN  RetainLoop(Tail(raw),
                        IF Retained(key, value)
                        THEN DictSet(h, NormalizeKey(Lower(key)), value)
                        ELSE h)

\* Referer and Origin written whether or not they were captured
FillPageOverwriting(h, page, origin) ==
    LET h1 == IF page # <<>> THEN DictSet(h, KeyReferer, page) ELSE h
    IN  IF origin # <<>> THEN DictSet(h1, KeyOrigin, origin) ELSE h1

\* if self.target_url and "Referer" not in headers; the same for Origin
FillPage(h, page, origin) ==
    LET h1 == IF page # <<>> /\ KeyReferer \notin DOMAIN h
              THEN DictSet(h, KeyReferer, page) ELSE h
    IN  IF origin # <<>> /\ KeyOrigin \notin DOMAIN h1
        THEN DictSet(h1, KeyOrigin, origin) ELSE h1

\* self.user_agent or DEFAULT_CHROMIUM_USER_AGENT
FallbackUserAgent(ua) == IF ua # <<>> THEN ua ELSE DefaultChromiumUserAgent

FillUserAgent(h, ua) ==
    IF KeyUserAgent \notin DOMAIN h
    THEN DictSet(h, KeyUserAgent, FallbackUserAgent(ua))
    ELSE DictSet(h, KeyUserAgent,
                 IF h[KeyUserAgent] # <<>> THEN h[KeyUserAgent] ELSE FallbackUserAgent(ua))

\* Range only defaulted, like Accept
FinishHeadersRangeDefaulted(h) ==
    SetDefault(SetDefault(SetDefault(h, KeyRange, ValBytesAll),
                          KeyAccept, ValAnyType),
               KeyAcceptEncoding, ValIdentity)

\* headers["Range"] = "bytes=0-" and the two setdefault calls
FinishHeaders(h) ==
    SetDefault(SetDefault(DictSet(h, KeyRange, ValBytesAll),
                          KeyAccept, ValAnyType),
               KeyAcceptEncoding, ValIdentity)

PrepareDownloadHeaders(raw, page, origin, ua) ==
    FinishHeaders(FillUserAgent(FillPage(RetainLoop(raw, EmptyDict), page, origin), ua))

\* f"{parsed.scheme}://{parsed.netloc}" if parsed.scheme and parsed.netloc else None
OriginOf(url) ==
    IF UrlScheme(url) # <<>> /\ UrlNetloc(url) # <<>>
    THEN UrlScheme(url) \o <<":", "/", "/">> \o UrlNetloc(url)
    ELSE <<>>

\* captured header names: allowed ones in several casings, and others
RawNameSamples ==
    { NameRange, <<"A", "C", "C", "E", "P", "T">>, NameUserAgent,
      NameReferer, <<"R", "E", "F", "E", "R", "E", "R">>, KeyOrigin,
      <<"S", "e", "c", "-", "F", "e", "t", "c", "h", "-", "D", "e", "s", "t">>,
      <<"X", "-", "T", "o", "k", "e", "n">>,
      <<"s", "e", "c", "-", "c", "h", "-", "u", "a">> }

RawValueSamples ==
    { <<>>, <<"v">>, <<"b", "y", "t", "e", "s", "=", "0", "-", "9">> }

\* the dicts of at most MaxHeaders captured headers
RawHeaderSamples ==
    { raw \in SeqsUpTo(RawNameSamples \X RawValueSamples, MaxHeaders) :
        \A i, j \in DOMAIN raw : i # j => raw[i][1] # raw[j][1] }

\* pages: with scheme and host, and a local file
PageHttp == <<"h", "t", "t", "p", ":", "/", "/", "h", "/", "w">>
PageHttpsUpper == <<"H", "T", "T", "P", "S", ":", "/", "/", "H", "/", "w">>
PageFile == <<"f", "i", "l", "e", ":", "/", "/", "/", "p">>
PageSamples == { PageHttp, PageHttpsUpper, PageFile }

CustomUserAgent == <<"U", "A">>

\* __init__: user_agent is the argument, or the default one under stealth
UserAgentSamples == { <<>>, CustomUserAgent, DefaultChromiumUserAgent }

\* no response has arrived, nothing is captured
CaptureIdle ==
    /\ self_video_urls = {}
    /\ video_request_meta = EmptyDict
    /\ responses = <<>>
    /\ headers_map = EmptyDict

HeaderIdle ==
    /\ target_url = <<>>
    /\ target_origin = <<>>
    /\ user_agent = <<>>
    /\ raw_headers = <<>>
    /\ headers = EmptyDict
    /\ hstage = "idle"
    /\ CaptureIdle

\* the first lines of collect_video_urls
CollectVideoUrls ==
    /\ hstage = "new"
    /\ \E url \in PageSamples :
        /\ target_url' = url
        /\ target_origin' = OriginOf(url)
    /\ hstage' = "collecting"
    /\ self_video_urls' = {}
    /\ video_request_meta' = EmptyDict
    /\ UNCHANGED <<user_agent, raw_headers, headers, responses, headers_map>>
    /\ UNCHANGED exceptHeaders

\* one call of _prepare_download_headers, from _store_response_metadata or
\* from download_videos
PrepareHeaders ==
    /\ hstage \in {"new", "collecting"}
    /\ \E raw \in RawHeaderSamples :
        /\ raw_headers' = raw
        /\ headers' = PrepareDownloadHeaders(raw, target_url, target_origin, user_agent)
    /\ hstage' = "prepared"
    /\ UNCHANGED <<target_url, target_origin, user_agent, captureVars>>
    /\ UNCHANGED exceptHeaders


(***************************************************************************)
(* The capture of responses while collect_video_urls waits for the page.   *)
(* Playwright starts one _handle_response task per response; a task is     *)
(* suspended in request.all_headers() and resumes in any order.  From the  *)
(* last await of collect_video_urls to the end of download_videos there is *)
(* no await, so no task runs in between.  responses[i] is the position of  *)
(* the task of response i:                                                 *)
(*   none      the response has not arrived                                *)
(*   ignored   neither a video URL nor a media content type                *)
(*   awaiting  the URL is in self.video_urls, all_headers() is pending     *)
(*   stored    video_request_meta[url] is written                          *)
(*   failed    all_headers() raised, the exception is logged               *)
(***************************************************************************)
\* the responses of a page: a playlist, a segment under it, a file that is
\* requested twice, and the page itself
ResponseSamples ==
    << [url |-> UrlPlaylistA, media |-> TRUE],
       [url |-> UrlSeg0A, media |-> TRUE],
       [url |-> UrlMp4A, media |-> TRUE],
       [url |-> UrlMp4A, media |-> TRUE],
       [url |-> PageHttp, media |-> FALSE] >>

\* what request.all_headers() can give: nothing of use, or a partial Range
\* with a Referer
CaptureSamples ==
    { <<>>,
      << <<NameRange, <<"b", "y", "t", "e", "s", "=", "0", "-", "9">> >>,
         <<NameReferer, <<"v">> >> >> }

\* list(self.video_urls): the set in some order
ListsOf(S) ==
    {l \in [1..Cardinality(S) -> S] : \A i, j \in 1..Cardinality(S) : i # j => l[i] # l[j]}

\* a map that would hold nothing for a URL without captured headers
HeadersForCapturedOnly(meta, url, page, origin, ua) ==
    IF url \in DOMAIN meta THEN meta[url] ELSE EmptyDict

\* self.video_request_meta.get(url) or self._prepare_download_headers({})
HeadersFor(meta, url, page, origin, ua) ==
    IF url \in DOMAIN meta /\ meta[url] # EmptyDict
    THEN meta[url]
    ELSE PrepareDownloadHeaders(<<>>, page, origin, ua)

\* _handle_response up to its await: the URL is added to self.video_urls
HandleResponse ==
    /\ hstage = "collecting"
    /\ \E i \in DOMAIN responses :
          /\ responses[i] = "none"
          /\ IF ResponseSamples[i].media
             THEN /\ self_video_urls' = self_video_urls \cup {ResponseSamples[i].url}
                  /\ responses' = [responses EXCEPT ![i] = "awaiting"]
             ELSE /\ self_video_urls' = self_video_urls
                  /\ responses' = [responses EXCEPT ![i] = "ignored"]
    /\ UNCHANGED <<target_url, target_origin, user_agent, raw_headers, headers, hstage,
                   video_request_meta, headers_map>>
    /\ UNCHANGED exceptHeaders

\* _store_response_metadata after request.all_headers() has returned
StoreResponseMetadata ==
    /\ hstage = "collecting"
    /\ \E i \in DOMAIN responses :
          /\ responses[i] = "awaiting"
          /\ \E raw \in CaptureSamples :
                video_request_meta' =
                    DictSet(video_request_meta, ResponseSamples[i].url,
                            PrepareDownloadHeaders(raw, target_url, target_origin, user_agent))
          /\ responses' = [responses EXCEPT ![i] = "stored"]
    /\ UNCHANGED <<target_url, target_origin, user_agent, raw_headers, headers, hstage,
                   self_video_urls, headers_map>>
    /\ UNCHANGED exceptHeaders

\* _store_response_metadata when request.all_headers() raises
StoreFails ==
    /\ hstage = "collecting"
    /\ \E i \in DOMAIN responses :
          /\ responses[i] = "awaiting"
          /\ responses' = [responses EXCEPT ![i] = "failed"]
    /\ UNCHANGED <<target_url, target_origin, user_agent, raw_headers, headers, hstage,
                   self_video_urls, video_request_meta, headers_map>>
    /\ UNCHANGED exceptHeaders

\* collect_video_urls returns list(self.video_urls) and run_async hands it
\* to download_videos, whatever the tasks have reached
CollectReturns ==
    /\ hstage = "collecting"
    /\ stage = "idle"
    /\ video_urls' \in ListsOf(self_video_urls)
    /\ stage' = "start"
    /\ hstage' = "collected"
    /\ UNCHANGED <<m3u8_base_paths, filtered_urls, refiltered_urls>>
    /\ UNCHANGED <<target_url, target_origin, user_agent, raw_headers, headers, captureVars>>
    /\ UNCHANGED <<disk, batchVars, toolVars, mergeVars, muxVars, runVars>>

\* the loop that fills headers_map for the filtered URLs
BuildHeadersMap ==
    /\ hstage = "collected"
    /\ stage = "filtered"
    /\ headers_map' =
          [url \in Range(filtered_urls) |->
              HeadersFor(video_request_meta, url, target_url, target_origin, user_agent)]
    /\ hstage' = "mapped"
    /\ UNCHANGED <<target_url, target_origin, user_agent, raw_headers, headers,
                   self_video_urls, video_request_meta, responses>>
    /\ UNCHANGED exceptHeaders

(***************************************************************************)
(* utils: file names and paths.                                            *)
(***************************************************************************)
DigitSeq == <<"0", "1", "2", "3", "4", "5", "6", "7", "8", "9">>

\* str(i) of a natural number
RECURSIVE IntStr(_)
IntStr(i) ==
    IF i < 10 THEN <<DigitSeq[i + 1]>>
    ELSE IntStr(i \div 10) \o <<DigitSeq[(i % 10) + 1]>>

\* os.path.basename
Basename(path) == SubSeq(path, RFind(path, "/") + 1, Len(path))

\* the last dot starts the extension, unless only dots come before it
ExtDotAt(name, i) ==
    IF i > 0 /\ \E j \in 1..(i - 1) : name[j] # "." THEN i ELSE 0

\* the position of the dot that starts the extension of a file name, 0 when
\* it has none
ExtDot(name) == ExtDotAt(name, RFind(name, "."))

RootLenAt(name, dot) == IF dot = 0 THEN Len(name) ELSE dot - 1

\* the length of os.path.splitext(name)[0]
RootLen(name) == RootLenAt(name, ExtDot(name))

\* os.path.splitext(name)[0] and [1], for a name without directory
SplitRoot(name) == SubSeq(name, 1, RootLen(name))
SplitExt(name) == SubSeq(name, RootLen(name) + 1, Len(name))

\* os.path.join(output_dir, filename)
JoinPath(dir, filename) == dir \o <<"/">> \o filename

\* Path(path).stem, os.path.splitext(os.path.basename(path))[0]
Stem(path) == SplitRoot(Basename(path))

OutputDir == <<"/", "o">>
DefaultName == <<"v", "i", "d", "e", "o">>

\* index is None
NoIndex == -1

\* filename.split('?')[0]
CutAtQuestionMark(filename) == SubSeq(filename, 1, FindAny(filename, {"?"}) - 1)

\* if not os.path.splitext(filename)[1]: the extension inferred from the URL
InferExt(url, filename) ==
    IF SplitExt(filename) # <<>> THEN filename
    ELSE IF Contains(Lower(url), ExtM3u8) THEN filename \o ExtM3u8
    ELSE IF Contains(Lower(url), ExtMp4) THEN filename \o ExtMp4
    ELSE filename

\* the name or the default name, the index left out
NameWithoutIndex(path, filename, index) ==
    IF path # <<>> /\ filename # <<>> /\ Contains(filename, <<".">>)
    THEN filename
    ELSE DefaultName \o ExtMp4

\* the name with the index before its extension, or the default name
NameWithIndex(path, filename, index) ==
    IF path # <<>> /\ filename # <<>> /\ Contains(filename, <<".">>)
    THEN IF index # NoIndex
         THEN SplitRoot(filename) \o <<"_">> \o IntStr(index) \o SplitExt(filename)
         ELSE filename
    ELSE IF index # NoIndex
         THEN DefaultName \o <<"_">> \o IntStr(index) \o ExtMp4
         ELSE DefaultName \o ExtMp4

FilenameOfPath(url, path, index) ==
    NameWithIndex(path, InferExt(url, CutAtQuestionMark(Basename(path))), index)

\* get_video_filename(url, index)
GetVideoFilename(url, index) == FilenameOfPath(url, UrlPath(url), index)

\* if output_path.endswith('.m3u8'): os.path.splitext(output_path)[0] + '.mp4'
RewriteM3u8(url, output_path) ==
    IF Contains(Lower(url), ExtM3u8) /\ EndsWith(output_path, ExtM3u8)
    THEN SubSeq(output_path, 1, Len(output_path) - Len(SplitExt(Basename(output_path))))
         \o ExtMp4
    ELSE output_path

\* the output path download_video fetches or remuxes into
OutputPathOf(url, index) ==
    RewriteM3u8(url, JoinPath(OutputDir, GetVideoFilename(url, index)))

(***************************************************************************)
(* download_video and the download batch.  What the network and ffmpeg do  *)
(* with one item is the environment's choice:                              *)
(*   ok              the file is written, download_mp4/download_m3u8 True   *)
(*   request_failed  requests.get or raise_for_status raises (network      *)
(*                   error, timeout, HTTP status): no file, False           *)
(*   stream_broken   the body breaks after the file was opened: a partial  *)
(*                   file, False                                            *)
(*   ffmpeg_missing  check_ffmpeg_available is False: no file, False       *)
(*   nonzero_exit    ffmpeg exits non-zero, with or without a partial file *)
(*   exit0_no_file   ffmpeg exits 0 and wrote no file: True, no file        *)
(*   raises          an exception inside download_video (os.makedirs,      *)
(*                   Popen): caught, None                                   *)
(***************************************************************************)
Mp4Outcomes == {"ok", "request_failed", "stream_broken", "raises"}
M3u8Outcomes ==
    {"ok", "ffmpeg_missing", "nonzero_exit", "nonzero_exit_partial", "exit0_no_file", "raises"}

OutcomesOf(url) == IF Contains(Lower(url), ExtM3u8) THEN M3u8Outcomes ELSE Mp4Outcomes

\* success of download_mp4 / download_m3u8
SuccessOf(outcome) == outcome \in {"ok", "exit0_no_file"}

\* the files on disk after the fetch or the ffmpeg run
DiskAfter(d, output_path, outcome) ==
    IF outcome \in {"ok", "stream_broken", "nonzero_exit_partial"}
    THEN d \cup {output_path}
    ELSE d

\* the path is returned whether or not the download succeeded
DownloadVideoReturnAlways(success, exists, output_path) == output_path

\* if success and os.path.exists(output_path): return output_path; return None
DownloadVideoReturn(success, exists, output_path) ==
    IF success /\ exists THEN output_path ELSE <<>>

\* download_video, from the output path on: the returned path, or <<>>
DownloadVideo(output_path, outcome, d) ==
    IF outcome = "raises" THEN <<>>
    ELSE DownloadVideoReturn(SuccessOf(outcome),
                             output_path \in DiskAfter(d, output_path, outcome),
                             output_path)

\* index=i if len(video_urls) > 1 else None, for the item at position k
IndexOf(urls, k) == IF Len(urls) > 1 THEN k - 1 ELSE NoIndex

\* a direct file named like the playlist, and one named like the default
UrlMp4I == DirA \o <<"i">> \o ExtMp4
UrlMp4Video == <<"/", "b", "/">> \o DefaultName \o ExtMp4

BatchUrlSamples ==
    { UrlPlaylistA, UrlMp4A, UrlSeg0A,
      <<"h", "t", "t", "p", ":", "/", "/", "h", "/", "x">>,
      UrlMp4I, UrlMp4Video }

BatchIdle ==
    /\ batch_urls = <<>>
    /\ batch_i = 0
    /\ downloaded_files = <<>>
    /\ outcomes = <<>>
    /\ bstage = "idle"

\* if file_path: downloaded_files.append(file_path)
AppendIfPath(files, file_path) ==
    IF file_path # <<>> THEN Append(files, file_path) ELSE files

\* download_video for an item with this output path and outcome, and the
\* append
DownloadItem(output_path, outcome) ==
    /\ disk' = IF outcome = "raises" THEN disk ELSE DiskAfter(disk, output_path, outcome)
    /\ downloaded_files' =
           AppendIfPath(downloaded_files, DownloadVideo(output_path, outcome, disk))
    /\ outcomes' = Append(outcomes, [kind |-> outcome, path |-> output_path])

\* one iteration of the loop
DownloadNext ==
    /\ bstage = "loop"
    /\ batch_i < Len(batch_urls)
    /\ \E outcome \in OutcomesOf(batch_urls[batch_i + 1]) :
        DownloadItem(OutputPathOf(batch_urls[batch_i + 1],
                                  IndexOf(batch_urls, batch_i + 1)),
                     outcome)
    /\ batch_i' = batch_i + 1
    /\ UNCHANGED <<batch_urls, bstage>>
    /\ UNCHANGED exceptBatch

\* the loop is over: return downloaded_files
ReturnDownloaded ==
    /\ bstage = "loop"
    /\ batch_i = Len(batch_urls)
    /\ bstage' = "done"
    /\ UNCHANGED <<batch_urls, batch_i, downloaded_files, outcomes, disk>>
    /\ UNCHANGED exceptBatch

(***************************************************************************)
(* Invocations of ffmpeg and ffprobe (utils.py).  download_m3u8 starts the *)
(* child with Popen, reads stderr through a thread and a queue, never      *)
(* reads the stdout pipe that "-progress pipe:1" fills, and waits in a     *)
(* loop of queue.get(timeout=0.5) and process.poll().  merge_ts_files,     *)
(* mux_streams and _probe_stream_profile call subprocess.run with a        *)
(* timeout, which reads both pipes and kills the child when the timeout    *)
(* expires.  The child is the environment: it may write, exit with any     *)
(* status, or do neither for ever.  Time is abstracted: a timeout that is  *)
(* armed may expire at any step and does expire if nothing else ends the   *)
(* wait.                                                                   *)
(***************************************************************************)
OpDownloadM3u8 == "download_m3u8"
OpMergeTsFiles == "merge_ts_files"
OpMuxStreams == "mux_streams"
OpProbeStreamProfile == "_probe_stream_profile"

Invocations == {OpDownloadM3u8, OpMergeTsFiles, OpMuxStreams, OpProbeStreamProfile}

\* the functions that call check_ffmpeg_available before the real command
ChecksFfmpegFirst == {OpDownloadM3u8, OpMergeTsFiles}

\* the functions that pass timeout= to subprocess.run
RunsWithTimeout == {OpMergeTsFiles, OpMuxStreams, OpProbeStreamProfile}

Alive == {"running", "blocked"}
Exited == {"exit0", "exit1"}

ToolIdle ==
    /\ invocation = "none"
    /\ tpc = "idle"
    /\ process = "none"
    /\ stdout_pipe = 0
    /\ stderr_queue = 0
    /\ stderr_lines = 0
    /\ returned = "none"

\* the value a function returns for a failure: None from the probe, False
\* from the others
FailureValue(op) == IF op = OpProbeStreamProfile THEN "None" ELSE "False"

\* the value returned after subprocess.run has returned: the probe returns
\* the stream counts on status 0; merge and mux return True when the status
\* is 0 and the output file exists
RunResult(op, status, output_exists) ==
    IF op = OpProbeStreamProfile
    THEN IF status = "exit0" THEN "profile" ELSE "None"
    ELSE IF status = "exit0" /\ output_exists THEN "True" ELSE "False"

\* check_ffmpeg_available: "ffmpeg -version" under a timeout of 5 seconds;
\* False on TimeoutExpired or FileNotFoundError, and then the caller fails.
\* Any other error of subprocess.run (PermissionError for an ffmpeg that is
\* not executable) leaves check_ffmpeg_available as an exception:
\* download_m3u8 calls it inside its try and returns False, merge_ts_files
\* calls it before its try and raises
CheckFfmpegAvailable ==
    /\ tpc = "check"
    /\ \E available \in {"True", "False", "raises"} :
          IF available = "True"
          THEN /\ tpc' = "spawn"
               /\ returned' = returned
          ELSE IF available = "False" \/ invocation = OpDownloadM3u8
          THEN /\ tpc' = "returned"
               /\ returned' = "False"
          ELSE /\ tpc' = "raised"
               /\ returned' = returned
    /\ UNCHANGED <<invocation, process, stdout_pipe, stderr_queue, stderr_lines>>
    /\ UNCHANGED exceptTool

\* subprocess.Popen in download_m3u8; FileNotFoundError or another OSError
\* is caught by the outer handler, which returns False
Popen ==
    /\ tpc = "spawn"
    /\ invocation = OpDownloadM3u8
    /\ \E started \in BOOLEAN :
          IF started
          THEN /\ process' = "running"
               /\ tpc' = "get"
               /\ returned' = returned
          ELSE /\ process' = process
               /\ tpc' = "returned"
               /\ returned' = "False"
    /\ UNCHANGED <<invocation, stdout_pipe, stderr_queue, stderr_lines>>
    /\ UNCHANGED exceptTool

\* line = stderr_queue.get(timeout=0.5); stderr_lines.append(line)
QueueGetLine ==
    /\ tpc = "get"
    /\ stderr_queue > 0
    /\ stderr_queue' = stderr_queue - 1
    /\ stderr_lines' = stderr_lines + 1
    /\ UNCHANGED <<invocation, tpc, process, stdout_pipe, returned>>
    /\ UNCHANGED exceptTool

\* queue.Empty after half a second
QueueGetEmpty ==
    /\ tpc = "get"
    /\ stderr_queue = 0
    /\ tpc' = "poll"
    /\ UNCHANGED <<invocation, process, stdout_pipe, stderr_queue, stderr_lines, returned>>
    /\ UNCHANGED exceptTool

\* process.poll() is None: continue
PollStillRunning ==
    /\ tpc = "poll"
    /\ process \in Alive
    /\ tpc' = "get"
    /\ UNCHANGED <<invocation, process, stdout_pipe, stderr_queue, stderr_lines, returned>>
    /\ UNCHANGED exceptTool

\* process.poll() is not None: break
PollExited ==
    /\ tpc = "poll"
    /\ process \in Exited
    /\ tpc' = "drain"
    /\ UNCHANGED <<invocation, process, stdout_pipe, stderr_queue, stderr_lines, returned>>
    /\ UNCHANGED exceptTool

\* after the loop: join the reader, drain the queue, process.wait() on the
\* exited child, return returncode == 0
DrainAndReturn ==
    /\ tpc = "drain"
    /\ stderr_lines' = stderr_lines + stderr_queue
    /\ stderr_queue' = 0
    /\ returned' = IF process = "exit0" THEN "True" ELSE "False"
    /\ tpc' = "returned"
    /\ UNCHANGED <<invocation, process, stdout_pipe>>
    /\ UNCHANGED exceptTool

\* subprocess.run(cmd, capture_output=True, timeout=...) starts the child;
\* FileNotFoundError is caught and the function fails
Run ==
    /\ tpc = "spawn"
    /\ invocation \in RunsWithTimeout
    /\ \E started \in BOOLEAN :
          IF started
          THEN /\ process' = "running"
               /\ tpc' = "communicate"
               /\ returned' = returned
          ELSE /\ process' = process
               /\ tpc' = "returned"
               /\ returned' = FailureValue(invocation)
    /\ UNCHANGED <<invocation, stdout_pipe, stderr_queue, stderr_lines>>
    /\ UNCHANGED exceptTool

\* subprocess.run returns after the child has exited
RunCompletes ==
    /\ tpc = "communicate"
    /\ process \in Exited
    /\ \E output_exists \in BOOLEAN :
          returned' = RunResult(invocation, process, output_exists)
    /\ tpc' = "returned"
    /\ UNCHANGED <<invocation, process, stdout_pipe, stderr_queue, stderr_lines>>
    /\ UNCHANGED exceptTool

\* the timeout of subprocess.run expires: the child is killed,
\* TimeoutExpired is raised and the handler fails the function
RunTimeoutExpired ==
    /\ tpc = "communicate"
    /\ process \in Alive
    /\ process' = "killed"
    /\ returned' = FailureValue(invocation)
    /\ tpc' = "returned"
    /\ UNCHANGED <<invocation, stdout_pipe, stderr_queue, stderr_lines>>
    /\ UNCHANGED exceptTool

\* ffmpeg -progress pipe:1 writes a block of progress to its stdout; under
\* download_m3u8 nobody reads that pipe, under subprocess.run communicate()
\* consumes it at once
ChildWritesProgress ==
    /\ process = "running"
    /\ invocation = OpDownloadM3u8
    /\ IF stdout_pipe < PipeCapacity
       THEN /\ stdout_pipe' = stdout_pipe + 1
            /\ process' = process
       ELSE /\ stdout_pipe' = stdout_pipe
            /\ process' = "blocked"
    /\ UNCHANGED <<invocation, tpc, stderr_queue, stderr_lines, returned>>
    /\ UNCHANGED exceptTool

\* the child writes an error line; read_stderr puts it into stderr_queue
ChildWritesStderr ==
    /\ process = "running"
    /\ invocation = OpDownloadM3u8
    /\ stderr_queue + stderr_lines < MaxStderrLines
    /\ stderr_queue' = stderr_queue + 1
    /\ UNCHANGED <<invocation, tpc, process, stdout_pipe, stderr_lines, returned>>
    /\ UNCHANGED exceptTool

\* the child exits, with status 0 or not
ChildExits ==
    /\ process = "running"
    /\ \E status \in Exited : process' = status
    /\ UNCHANGED <<invocation, tpc, stdout_pipe, stderr_queue, stderr_lines, returned>>
    /\ UNCHANGED exceptTool

\* the steps of the program (the child's steps are the environment's)
ParentStep ==
    \/ CheckFfmpegAvailable
    \/ Popen
    \/ QueueGetLine
    \/ QueueGetEmpty
    \/ PollStillRunning
    \/ PollExited
    \/ DrainAndReturn
    \/ Run
    \/ RunCompletes
    \/ RunTimeoutExpired

ChildStep == ChildWritesProgress \/ ChildWritesStderr \/ ChildExits

(***************************************************************************)
(* utils: reassembly of downloaded .ts segments (detect_and_merge_ts_files,*)
(* _group_ts_files, _sort_ts_files, _generate_merged_filename,             *)
(* merge_ts_files).  The regular expressions are modelled by what they     *)
(* match: a lazy prefix of at least one character followed by a tail that  *)
(* must reach the end of the name.                                         *)
(***************************************************************************)
\* \d+ over the whole of s
AllDigits(s) == Len(s) > 0 /\ \A i \in DOMAIN s : s[i] \in Digits

\* \d+_\d+ over the whole of s
DigitsIndex(s) ==
    \E u \in DOMAIN s :
        /\ s[u] = "_"
        /\ AllDigits(SubSeq(s, 1, u - 1))
        /\ AllDigits(SubSeq(s, u + 1, Len(s)))

\* the tails of the four patterns of _group_ts_files
TailNumberIndex == "(\\d+)_\\d+$"
TailNumber == "(\\d+)$"
TailSepNumberIndex == "_(\\d+)_\\d+$"
TailSepNumber == "_(\\d+)$"

TailMatches(tail, s) ==
    CASE tail = TailNumberIndex -> DigitsIndex(s)
      [] tail = TailNumber -> AllDigits(s)
      [] tail = TailSepNumberIndex -> Len(s) > 0 /\ s[1] = "_" /\ DigitsIndex(Tail(s))
      [] tail = TailSepNumber -> Len(s) > 0 /\ s[1] = "_" /\ AllDigits(Tail(s))

\* re.match(r'^(.+?)' + tail, name): the length of group 1, the shortest
\* prefix of at least one character that the tail can follow; 0 when the
\* pattern does not match
LazyPrefix(name, tail) ==
    IF \E k \in 1..(Len(name) - 1) : TailMatches(tail, SubSeq(name, k + 1, Len(name)))
    THEN CHOOSE k \in 1..(Len(name) - 1) :
            /\ TailMatches(tail, SubSeq(name, k + 1, Len(name)))
            /\ \A j \in 1..(k - 1) : ~TailMatches(tail, SubSeq(name, j + 1, Len(name)))
    ELSE 0

\* the start of the longest run of digits that ends the name, Len(name) + 1
\* when the name does not end in a digit: re.search(r'(\d+)$', name)
TrailingDigitsStart(name) ==
    CHOOSE i \in 1..(Len(name) + 1) :
        /\ \A j \in i..Len(name) : name[j] \in Digits
        /\ (i > 1 => name[i - 1] \notin Digits)

\* re.sub(r'_\d+$', '', name)
StripIndexSuffix(name) ==
    IF \E i \in DOMAIN name : name[i] = "_" /\ AllDigits(SubSeq(name, i + 1, Len(name)))
    THEN SubSeq(name, 1,
                (CHOOSE i \in DOMAIN name :
                    name[i] = "_" /\ AllDigits(SubSeq(name, i + 1, Len(name)))) - 1)
    ELSE name

DefaultGroup == <<"d", "e", "f", "a", "u", "l", "t">>

\* pattern 5 and the default group
FallbackGroup(name, fallback_name) ==
    IF fallback_name # name THEN fallback_name ELSE DefaultGroup

\* the group of a name, from the lengths of group 1 of the four patterns
\* in the order the code tries them
GroupNameFrom(name, k1, k2, k3, k4) ==
    IF k1 > 0 THEN SubSeq(name, 1, k1)
    ELSE IF k2 > 0 THEN SubSeq(name, 1, k2)
    ELSE IF k3 > 0 THEN SubSeq(name, 1, k3)
    ELSE IF k4 > 0 THEN SubSeq(name, 1, k4)
    ELSE FallbackGroup(name, StripIndexSuffix(name))

\* the key under which _group_ts_files files ts_file
GroupNameOf(ts_file) ==
    GroupNameFrom(Stem(ts_file),
                  LazyPrefix(Stem(ts_file), TailNumberIndex),
                  LazyPrefix(Stem(ts_file), TailNumber),
                  LazyPrefix(Stem(ts_file), TailSepNumberIndex),
                  LazyPrefix(Stem(ts_file), TailSepNumber))

\* groups.setdefault(base_name, []).append(ts_file), on a dict kept as the
\* sequence of its items in insertion order
SetDefaultAppend(groups, base_name, ts_file) ==
    IF \E i \in DOMAIN groups : groups[i].name = base_name
    THEN [i \in DOMAIN groups |->
            IF groups[i].name = base_name
            THEN [name |-> base_name, files |-> Append(groups[i].files, ts_file)]
            ELSE groups[i]]
    ELSE Append(groups, [name |-> base_name, files |-> <<ts_file>>])

RECURSIVE GroupLoop(_, _)
GroupLoop(ts_files, groups) ==
    IF ts_files = <<>> THEN groups
    ELSE GroupLoop(Tail(ts_files),
                   SetDefaultAppend(groups, GroupNameOf(Head(ts_files)), Head(ts_files)))

\* a filter that would keep the groups of one file too
HasAFile(group) == Len(group.files) >= 1

HasTwoFiles(group) == Len(group.files) >= 2

\* _group_ts_files: the groups of at least two files
GroupTsFiles(ts_files) == SelectSeq(GroupLoop(ts_files, <<>>), HasTwoFiles)

\* int(s) of a run of digits
DigitValue(c) == (CHOOSE i \in DOMAIN DigitSeq : DigitSeq[i] = c) - 1

RECURSIVE ToInt(_)
ToInt(s) ==
    IF s = <<>> THEN 0
    ELSE 10 * ToInt(SubSeq(s, 1, Len(s) - 1)) + DigitValue(s[Len(s)])

\* group 1 of a pattern whose tail is (\d+)_\d+$, for the tail that starts
\* at position from: the digits up to the next underscore
NumberBeforeIndex(name, from) ==
    ToInt(SubSeq(name, from,
                 (CHOOSE u \in from..Len(name) :
                     name[u] = "_" /\ \A j \in from..(u - 1) : name[j] # "_") - 1))

\* extract_number, from the lengths of the lazy prefixes of its patterns 1
\* and 2; patterns 3 and 4 search for digits at the end
ExtractNumberFrom(name, k1, k2) ==
    IF k1 > 0 THEN NumberBeforeIndex(name, k1 + 1)
    ELSE IF k2 > 0 THEN NumberBeforeIndex(name, k2 + 2)
    ELSE ToInt(SubSeq(name, TrailingDigitsStart(name), Len(name)))

extract_number(filepath) ==
    ExtractNumberFrom(Stem(filepath),
                      LazyPrefix(Stem(filepath), TailNumberIndex),
                      LazyPrefix(Stem(filepath), TailSepNumberIndex))

\* the place of a file with this number in a list sorted so far: behind
\* every file whose number is not greater (sorted() is stable)
InsertStable(sorted, ts_file, number) ==
    LET n == Cardinality({i \in DOMAIN sorted : extract_number(sorted[i]) <= number})
    IN  SubSeq(sorted, 1, n) \o <<ts_file>> \o SubSeq(sorted, n + 1, Len(sorted))

RECURSIVE SortLoop(_, _)
SortLoop(ts_files, sorted) ==
    IF ts_files = <<>> THEN sorted
    ELSE SortLoop(Tail(ts_files),
                  InsertStable(sorted, Head(ts_files), extract_number(Head(ts_files))))

\* _sort_ts_files: sorted(ts_files, key=extract_number)
SortTsFiles(ts_files) == SortLoop(ts_files, <<>>)

\* str.strip(cs): the characters of cs removed from both ends
StripFirst(s, cs) ==
    IF \E i \in DOMAIN s : s[i] \notin cs
    THEN CHOOSE i \in DOMAIN s : s[i] \notin cs /\ \A j \in 1..(i - 1) : s[j] \in cs
    ELSE Len(s) + 1

StripLast(s, cs) ==
    IF \E i \in DOMAIN s : s[i] \notin cs
    THEN CHOOSE i \in DOMAIN s : s[i] \notin cs /\ \A j \in (i + 1)..Len(s) : s[j] \in cs
    ELSE 0

Strip(s, cs) == SubSeq(s, StripFirst(s, cs), StripLast(s, cs))

\* str.rstrip(cs)
RStrip(s, cs) == SubSeq(s, 1, StripLast(s, cs))

\* str.replace('_', '-')
ReplaceUnderscores(s) == [i \in DOMAIN s |-> IF s[i] = "_" THEN "-" ELSE s[i]]

MergedWord == <<"m", "e", "r", "g", "e", "d">>

OrMerged(clean_name) == IF clean_name = <<>> THEN MergedWord ELSE clean_name

\* clean_name = group_name.strip('_-').replace('_', '-') or "merged"
CleanName(group_name) == OrMerged(ReplaceUnderscores(Strip(group_name, {"_", "-"})))

\* f"{clean_name}_merged.mp4", f"{clean_name}_merged_{counter}.mp4"
MergedFilename(clean_name, counter) ==
    IF counter = 0
    THEN clean_name \o <<"_">> \o MergedWord \o ExtMp4
    ELSE clean_name \o <<"_">> \o MergedWord \o <<"_">> \o IntStr(counter) \o ExtMp4

\* the first name, without the test that it exists
FirstFreeMergedUnchecked(clean_name, counter, d) == MergedFilename(clean_name, counter)

\* while os.path.exists(output_path): the first name that is not on disk
RECURSIVE FirstFreeMerged(_, _, _)
FirstFreeMerged(clean_name, counter, d) ==
    IF JoinPath(OutputDir, MergedFilename(clean_name, counter)) \in d
    THEN FirstFreeMerged(clean_name, counter + 1, d)
    ELSE MergedFilename(clean_name, counter)

\* _generate_merged_filename(group_name, output_dir) with the files d on disk
GenerateMergedFilename(group_name, d) == FirstFreeMerged(CleanName(group_name), 0, d)

\* what one call of merge_ts_files can meet: ffmpeg missing, an exception
\* before the run, and the run's end with or without an output file
MergeOutcomes ==
    { "ok", "ffmpeg_missing", "raises", "exit0_no_file", "nonzero_exit",
      "nonzero_exit_partial", "timeout", "timeout_partial" }

\* ffmpeg -y creates the output file as soon as it starts to write; a run
\* that fails or is killed later leaves what it has written
MergeWroteOutput == {"ok", "nonzero_exit_partial", "timeout_partial"}

MergeExitedZero == {"ok", "exit0_no_file"}

\* True whatever ffmpeg did
MergeTsFilesReturnAlways(outcome, exists) == TRUE

\* merge_ts_files: result.returncode == 0 and os.path.exists(output_path);
\* False from every handler
MergeTsFilesReturn(outcome, exists) == outcome \in MergeExitedZero /\ exists

DiskAfterMerge(d, output_path, outcome) ==
    IF outcome \in MergeWroteOutput THEN d \cup {output_path} ELSE d

\* the loop over sorted_files with _delete_file_safely
DeleteAll(d, files) == d \ Range(files)

IsTs(f) == EndsWith(f, ExtTs)

\* ts_files = [f for f in downloaded_files if f.endswith('.ts')]
TsFilesOf(files) == SelectSeq(files, IsTs)

MergeIdle ==
    /\ ts_downloaded = <<>>
    /\ ts_groups = <<>>
    /\ group_i = 0
    /\ sorted_by_group = <<>>
    /\ output_paths = <<>>
    /\ merged_files = <<>>
    /\ mstage = "idle"

\* detect_and_merge_ts_files returns [] before the loop: no files, fewer
\* than two .ts files, or no group of two
ReturnNothingToMerge ==
    /\ mstage = "start"
    /\ \/ Len(TsFilesOf(ts_downloaded)) < 2
       \/ GroupTsFiles(TsFilesOf(ts_downloaded)) = <<>>
    /\ mstage' = "done"
    /\ UNCHANGED <<ts_downloaded, ts_groups, group_i, sorted_by_group, output_paths,
                   merged_files, disk>>
    /\ UNCHANGED exceptMerge

\* ts_groups = _group_ts_files(ts_files)
GroupFiles ==
    /\ mstage = "start"
    /\ Len(TsFilesOf(ts_downloaded)) >= 2
    /\ GroupTsFiles(TsFilesOf(ts_downloaded)) # <<>>
    /\ ts_groups' = GroupTsFiles(TsFilesOf(ts_downloaded))
    /\ mstage' = "loop"
    /\ UNCHANGED <<ts_downloaded, group_i, sorted_by_group, output_paths,
                   merged_files, disk>>
    /\ UNCHANGED exceptMerge

\* the body of the loop for sorted_files and output_path: merge, and on
\* success record the output and delete the originals
MergeSorted(sorted_files, output_path, outcome, success) ==
    /\ sorted_by_group' = Append(sorted_by_group, sorted_files)
    /\ output_paths' = Append(output_paths, output_path)
    /\ merged_files' = IF success THEN Append(merged_files, output_path) ELSE merged_files
    /\ disk' = IF success
               THEN DeleteAll(DiskAfterMerge(disk, output_path, outcome), sorted_files)
               ELSE DiskAfterMerge(disk, output_path, outcome)

MergeInto(sorted_files, output_path, outcome) ==
    MergeSorted(sorted_files, output_path, outcome,
                MergeTsFilesReturn(outcome, output_path \in DiskAfterMerge(disk, output_path, outcome)))

\* one iteration of the loop over ts_groups
MergeGroup ==
    /\ mstage = "loop"
    /\ group_i < Len(ts_groups)
    /\ \E outcome \in MergeOutcomes :
          MergeInto(SortTsFiles(ts_groups[group_i + 1].files),
                    JoinPath(OutputDir,
                             GenerateMergedFilename(ts_groups[group_i + 1].name, disk)),
                    outcome)
    /\ group_i' = group_i + 1
    /\ UNCHANGED <<ts_downloaded, ts_groups, mstage>>
    /\ UNCHANGED exceptMerge

\* one iteration in which check_ffmpeg_available raises: merge_ts_files
\* calls it before its try, and detect_and_merge_ts_files has no handler
MergeCheckRaises ==
    /\ mstage = "loop"
    /\ group_i < Len(ts_groups)
    /\ mstage' = "raised"
    /\ UNCHANGED <<ts_downloaded, ts_groups, group_i, sorted_by_group, output_paths,
                   merged_files, disk>>
    /\ UNCHANGED exceptMerge

\* return merged_files
ReturnMerged ==
    /\ mstage = "loop"
    /\ group_i = Len(ts_groups)
    /\ mstage' = "done"
    /\ UNCHANGED <<ts_downloaded, ts_groups, group_i, sorted_by_group, output_paths,
                   merged_files, disk>>
    /\ UNCHANGED exceptMerge

\* downloaded files the reassembly can be handed
TsName(stem) == JoinPath(OutputDir, stem \o ExtTs)

Clip == <<"c", "l", "i", "p">>
Seg == <<"s", "e", "g">>

FileClipA0 == TsName(Clip \o <<"A", "_", "0">>)
FileClipA1 == TsName(Clip \o <<"A", "_", "1">>)
FileClipB0 == TsName(Clip \o <<"B", "_", "0">>)
FileSeg1Index0 == TsName(Seg \o <<"1", "_", "0">>)
FileSeg1Index3 == TsName(Seg \o <<"1", "_", "3">>)
FileSeg10Index1 == TsName(Seg \o <<"1", "0", "_", "1">>)
FileSeg9Index2 == TsName(Seg \o <<"9", "_", "2">>)
FileIntro == TsName(<<"i", "n", "t", "r", "o">>)
FileMp4 == JoinPath(OutputDir, <<"v">> \o ExtMp4)

TsSamples ==
    { FileClipA0, FileClipA1, FileClipB0, FileSeg1Index0, FileSeg1Index3,
      FileSeg10Index1, FileSeg9Index2, FileIntro, FileMp4 }

\* segments of two groups whose names clean to the same name
FileClipADash0 == TsName(Clip \o <<"A", "-", "0">>)
FileClipADash1 == TsName(Clip \o <<"A", "-", "1">>)

TsNameSamples == {FileClipA0, FileClipA1, FileClipADash0, FileClipADash1, FileClipB0}

\* a merged file left by an earlier run
FileClipAMerged == JoinPath(OutputDir, MergedFilename(Clip \o <<"A">>, 0))

\* segments whose stems are made of digits only, next to lettered ones
File100Index0 == TsName(<<"1", "0", "0", "_", "0">>)
File15Index1 == TsName(<<"1", "5", "_", "1">>)
File10Index5 == TsName(<<"1", "0", "_", "5">>)

NumberSamples ==
    {File100Index0, File15Index1, File10Index5, FileSeg10Index1, FileSeg9Index2}

\* the lists of distinct files up to length n
DistinctSeqs(S, n) ==
    {s \in SeqsUpTo(S, n) : \A i, j \in DOMAIN s : i # j => s[i] # s[j]}

MuxIdle ==
    /\ mux_downloaded = <<>>
    /\ probe_i = 0
    /\ profile = <<>>
    /\ video_only = <<>>
    /\ audio_only = <<>>
    /\ audio_map = <<>>
    /\ video_idx = 0
    /\ pairs = <<>>
    /\ muxed_files = <<>>
    /\ xstage = "idle"

(***************************************************************************)
(* utils: pairing and muxing of separate video and audio files             *)
(* (auto_mux_downloads, _group_by_base, _pop_matching_audio,               *)
(* _build_mux_output_path, _normalize_stem, _derive_common_prefix).        *)
(***************************************************************************)
\* pathlib's stem of a file name: the name up to its last dot, unless that
\* dot is the first or the last character
PathStemAt(name, dot) ==
    IF 1 < dot /\ dot < Len(name) THEN SubSeq(name, 1, dot - 1) ELSE name

\* Path(path).stem
PathStem(path) == PathStemAt(Basename(path), RFind(Basename(path), "."))

Whitespace == {" ", "\t", "\n"}

\* stem.rsplit('_', 1)[0] when '_' in stem
BeforeLastUnderscore(stem, u) == IF u > 0 THEN SubSeq(stem, 1, u - 1) ELSE stem

\* _normalize_stem
NormalizeStem(stem) ==
    Strip(Strip(BeforeLastUnderscore(stem, RFind(stem, "_")), Whitespace),
          {"-", "_", "."})

\* os.path.commonprefix([a, b]): the length of the longest common prefix
CommonPrefixLen(a, b) ==
    CHOOSE k \in 0..Len(a) :
        /\ k <= Len(b)
        /\ SubSeq(a, 1, k) = SubSeq(b, 1, k)
        /\ (k < Len(a) /\ k < Len(b) => a[k + 1] # b[k + 1])

\* the first stem, whatever the second
DeriveCommonPrefixFirst(a, b) == a

\* _derive_common_prefix
DeriveCommonPrefix(a, b) ==
    IF a = b THEN a
    ELSE RStrip(SubSeq(a, 1, CommonPrefixLen(a, b)), {"-", "_", "."})

\* f"{base_name}.mp4", f"{base_name}_{suffix}.mp4"
MuxFilename(base_name, suffix) ==
    IF suffix = 0
    THEN base_name \o ExtMp4
    ELSE base_name \o <<"_">> \o IntStr(suffix) \o ExtMp4

\* the first candidate, without the test that it exists
FirstFreeMuxUnchecked(base_name, suffix, d) ==
    JoinPath(OutputDir, MuxFilename(base_name, suffix))

\* while candidate.exists(): the first candidate that is not on disk
RECURSIVE FirstFreeMux(_, _, _)
FirstFreeMux(base_name, suffix, d) ==
    IF JoinPath(OutputDir, MuxFilename(base_name, suffix)) \in d
    THEN FirstFreeMux(base_name, suffix + 1, d)
    ELSE JoinPath(OutputDir, MuxFilename(base_name, suffix))

\* _build_mux_output_path with the files d on disk
BuildMuxOutputPath(video_path, audio_path, d) ==
    FirstFreeMux(OrMerged(DeriveCommonPrefix(NormalizeStem(PathStem(video_path)),
                                             NormalizeStem(PathStem(audio_path)))),
                 0, d)

\* base = _normalize_stem(Path(path).stem) or Path(path).stem
BaseOrStem(base, stem) == IF base = <<>> THEN stem ELSE base

GroupBaseOf(path) == BaseOrStem(NormalizeStem(PathStem(path)), PathStem(path))

RECURSIVE GroupByBaseLoop(_, _)
GroupByBaseLoop(paths, grouped) ==
    IF paths = <<>> THEN grouped
    ELSE GroupByBaseLoop(Tail(paths),
                         SetDefaultAppend(grouped, GroupBaseOf(Head(paths)), Head(paths)))

\* _group_by_base: the dict as the sequence of its items in insertion order
GroupByBase(paths) == GroupByBaseLoop(paths, <<>>)

\* the first candidate of the entry is returned and stays in the map
PopFromKeeping(map, i) == [path |-> Head(map[i].files), audio_map |-> map]

\* path = candidates.pop(0), and the key is dropped with its last
\* candidate
PopFrom(map, i) ==
    [path |-> Head(map[i].files),
     audio_map |->
        IF Len(map[i].files) = 1
        THEN SubSeq(map, 1, i - 1) \o SubSeq(map, i + 1, Len(map))
        ELSE [j \in DOMAIN map |->
                IF j = i THEN [name |-> map[i].name, files |-> Tail(map[i].files)]
                ELSE map[j]]]

\* _pop_matching_audio: the entry of the video's base when the map has
\* it, else the first entry that is left, else None
PopMatchingAudioFor(map, base) ==
    IF \E i \in DOMAIN map : map[i].name = base
    THEN PopFrom(map, CHOOSE i \in DOMAIN map : map[i].name = base)
    ELSE IF map # <<>>
    THEN PopFrom(map, 1)
    ELSE [path |-> <<>>, audio_map |-> map]

PopMatchingAudio(map, video_path) ==
    PopMatchingAudioFor(map, NormalizeStem(PathStem(video_path)))

\* what _probe_stream_profile can return for a file: None, or the numbers
\* of its video and audio streams
NoProfile == <<>>
ProfileSamples == {NoProfile, <<0, 0>>, <<1, 0>>, <<0, 1>>, <<1, 1>>}

\* a test that would take a file with both kinds of stream for a video
IsVideoOnlyIgnoringAudio(p) == p # NoProfile /\ p[1] > 0

IsVideoOnly(p) == p # NoProfile /\ p[1] > 0 /\ p[2] = 0
IsAudioOnly(p) == p # NoProfile /\ p[2] > 0 /\ p[1] = 0

\* what one call of mux_streams can meet
MuxOutcomes == {"ok", "ffmpeg_missing", "exit0_no_file", "nonzero_exit", "timeout_partial"}

MuxWroteOutput == {"ok", "timeout_partial"}

\* mux_streams without the test that the output exists
MuxStreamsReturnOnStatusAlone(outcome, exists) == outcome \in {"ok", "exit0_no_file"}

\* mux_streams: result.returncode == 0 and os.path.exists(output_path)
MuxStreamsReturn(outcome, exists) == outcome \in {"ok", "exit0_no_file"} /\ exists

DiskAfterMux(d, output_path, outcome) ==
    IF outcome \in MuxWroteOutput THEN d \cup {output_path} ELSE d

\* auto_mux_downloads with two files or more when check_ffmpeg_available
\* raises: there is no handler
MuxCheckRaises ==
    /\ xstage = "start"
    /\ Len(mux_downloaded) >= 2
    /\ xstage' = "raised"
    /\ UNCHANGED <<mux_downloaded, probe_i, profile, video_only, audio_only, audio_map,
                   video_idx, pairs, muxed_files, disk>>
    /\ UNCHANGED exceptMux

\* auto_mux_downloads up to the probes: fewer than two files, or ffmpeg
\* is not available
CheckBeforeMux ==
    /\ xstage = "start"
    /\ IF Len(mux_downloaded) < 2
       THEN xstage' = "done"
       ELSE \E available \in BOOLEAN : xstage' = IF available THEN "probe" ELSE "done"
    /\ UNCHANGED <<mux_downloaded, probe_i, profile, video_only, audio_only, audio_map,
                   video_idx, pairs, muxed_files, disk>>
    /\ UNCHANGED exceptMux

\* one iteration of the loop over downloaded_files
ProbeNext ==
    /\ xstage = "probe"
    /\ probe_i < Len(mux_downloaded)
    /\ \E probed \in ProfileSamples :
          /\ profile' = probed
          /\ video_only' = IF IsVideoOnly(probed)
                           THEN Append(video_only, mux_downloaded[probe_i + 1])
                           ELSE video_only
          /\ audio_only' = IF IsAudioOnly(probed)
                           THEN Append(audio_only, mux_downloaded[probe_i + 1])
                           ELSE audio_only
    /\ probe_i' = probe_i + 1
    /\ UNCHANGED <<mux_downloaded, audio_map, video_idx, pairs, muxed_files, xstage, disk>>
    /\ UNCHANGED exceptMux

\* after the probes: return [] without both kinds, else build audio_map
StartPairing ==
    /\ xstage = "probe"
    /\ probe_i = Len(mux_downloaded)
    /\ IF video_only = <<>> \/ audio_only = <<>>
       THEN /\ xstage' = "done"
            /\ audio_map' = audio_map
       ELSE /\ xstage' = "pair"
            /\ audio_map' = GroupByBase(audio_only)
    /\ UNCHANGED <<mux_downloaded, probe_i, profile, video_only, audio_only, video_idx, pairs,
                   muxed_files, disk>>
    /\ UNCHANGED exceptMux

\* the body of the loop for a video and the audio popped for it
MuxPair(video_path, audio_path, output_path, outcome, success) ==
    /\ pairs' = Append(pairs, [video |-> video_path, audio |-> audio_path,
                               output |-> output_path, muxed |-> success])
    /\ muxed_files' = IF success THEN Append(muxed_files, output_path) ELSE muxed_files
    /\ disk' = IF success
               THEN DiskAfterMux(disk, output_path, outcome) \ {video_path, audio_path}
               ELSE DiskAfterMux(disk, output_path, outcome)

MuxInto(video_path, audio_path, output_path, outcome) ==
    MuxPair(video_path, audio_path, output_path, outcome,
            MuxStreamsReturn(outcome, output_path \in DiskAfterMux(disk, output_path, outcome)))

PairWith(video_path, popped) ==
    /\ audio_map' = popped.audio_map
    /\ IF popped.path = <<>>
       THEN UNCHANGED <<pairs, muxed_files, disk>>
       ELSE \E outcome \in MuxOutcomes :
               MuxInto(video_path, popped.path,
                       BuildMuxOutputPath(video_path, popped.path, disk), outcome)

\* one iteration of the loop over video_only
PairNext ==
    /\ xstage = "pair"
    /\ video_idx < Len(video_only)
    /\ PairWith(video_only[video_idx + 1],
                PopMatchingAudio(audio_map, video_only[video_idx + 1]))
    /\ video_idx' = video_idx + 1
    /\ UNCHANGED <<mux_downloaded, probe_i, profile, video_only, audio_only, xstage>>
    /\ UNCHANGED exceptMux

\* return muxed_files
ReturnMuxed ==
    /\ xstage = "pair"
    /\ video_idx = Len(video_only)
    /\ xstage' = "done"
    /\ UNCHANGED <<mux_downloaded, probe_i, profile, video_only, audio_only, audio_map,
                   video_idx, pairs, muxed_files, disk>>
    /\ UNCHANGED exceptMux

\* downloaded files the pairing can be handed
ExtM4s == <<".", "m", "4", "s">>
M4sName(stem) == JoinPath(OutputDir, stem \o ExtM4s)

FileV0 == M4sName(<<"v", "_", "0">>)
FileV1 == M4sName(<<"v", "_", "1">>)
FileV2 == M4sName(<<"v", "_", "2">>)
FileW3 == M4sName(<<"w", "_", "3">>)
FileX == M4sName(<<"x">>)
FileVMp4 == JoinPath(OutputDir, <<"v">> \o ExtMp4)

MediaSamples == {FileV0, FileV1, FileV2, FileW3, FileX, FileVMp4}

\* files whose stems share a prefix that ends in a separator, and outputs
\* of an earlier run
Movie == <<"m", "o", "v", "i", "e">>
FileMovieVideo == M4sName(Movie \o <<"-", "v", "i", "d", "e", "o">>)
FileMovieAudio == M4sName(Movie \o <<"-", "a", "u", "d", "i", "o">>)
FileMovieMp4 == JoinPath(OutputDir, Movie \o ExtMp4)
FileMergedMp4 == JoinPath(OutputDir, MergedWord \o ExtMp4)

NameSamples == {FileMovieVideo, FileMovieAudio, FileV0, FileW3}

(***************************************************************************)
(* main in headless mode, from the download loop of                        *)
(* HeadlessBrowserDownloader.download_videos on: the loop, then            *)
(* detect_and_merge_ts_files, then auto_mux_downloads, each a plain call   *)
(* that returns before the next statement runs.  The download of a         *)
(* playlist is in two steps, Popen and the return of download_m3u8, with   *)
(* the child alive in between; every other toolbox invocation is a         *)
(* subprocess.run, whose child is gone when it returns.                    *)
(*                                                                         *)
(* A SIGINT reaches the program while asyncio.run executes the coroutine.  *)
(* Where asyncio.run installs its own handler (Python 3.11 and later) the  *)
(* first SIGINT only requests the cancellation of the task, which takes    *)
(* effect at the next await, and download_videos awaits nothing; a second  *)
(* SIGINT, or the first one without that handler, raises                   *)
(* KeyboardInterrupt in the running code.  KeyboardInterrupt is not an     *)
(* Exception: no except clause of utils or of the downloader catches it,   *)
(* and main ends the program with sys.exit(0).                             *)
(***************************************************************************)
\* the early return is never taken
NothingDownloadedIgnored(files) == FALSE

\* if not downloaded_files: log the failure and return
NothingDownloaded(files) == files = <<>>

\* the child when download_m3u8 returns and the exception handler kills
\* nothing
ChildAfterDownloadUnkilled(outcome) ==
    CASE outcome \in {"ok", "exit0_no_file"} -> "exit0"
      [] outcome = "raises" -> "running"
      [] OTHER -> "exit1"

\* the child when download_m3u8 returns: the loop ends when poll() sees the
\* exit, and the handler of an exception kills a child that still runs
ChildAfterDownload(outcome) ==
    CASE outcome \in {"ok", "exit0_no_file"} -> "exit0"
      [] outcome = "raises" -> "killed"
      [] OTHER -> "exit1"

\* the outcomes of a playlist item that start no child, and those that do
OutcomesWithoutChild == {"ffmpeg_missing", "raises"}
OutcomesWithChild == M3u8Outcomes \ {"ffmpeg_missing"}

\* downloaded_files = [f for f in downloaded_files if not f.endswith('.ts')]
WithoutTs(files) == SelectSeq(files, LAMBDA f : ~IsTs(f))

\* a list that would carry the merged outputs on to the muxing
FilesForMuxWithMerged(files, merged) == WithoutTs(files) \o merged

\* the list handed to auto_mux_downloads
FilesForMux(files, merged) == IF merged # <<>> THEN WithoutTs(files) ELSE files

RunItem == batch_urls[batch_i + 1]
RunOutputPath == OutputPathOf(RunItem, IndexOf(batch_urls, batch_i + 1))

InLoop ==
    /\ pipeline = "download"
    /\ bstage = "loop"
    /\ batch_i < Len(batch_urls)

\* one iteration of the loop for an item that is fetched with requests
RunDownloadDirect ==
    /\ InLoop
    /\ ~IsM3u8Url(RunItem)
    /\ \E outcome \in Mp4Outcomes : DownloadItem(RunOutputPath, outcome)
    /\ batch_i' = batch_i + 1
    /\ UNCHANGED <<batch_urls, bstage>>
    /\ UNCHANGED exceptBatch

\* one iteration for a playlist when ffmpeg is missing or download_video
\* fails before Popen
RunDownloadWithoutChild ==
    /\ InLoop
    /\ IsM3u8Url(RunItem)
    /\ \E outcome \in OutcomesWithoutChild : DownloadItem(RunOutputPath, outcome)
    /\ batch_i' = batch_i + 1
    /\ UNCHANGED <<batch_urls, bstage>>
    /\ UNCHANGED exceptBatch

\* download_m3u8 starts ffmpeg and enters its loop
RunPopen ==
    /\ InLoop
    /\ IsM3u8Url(RunItem)
    /\ process' = "running"
    /\ pipeline' = "ffmpeg"
    /\ UNCHANGED <<invocation, tpc, stdout_pipe, stderr_queue, stderr_lines, returned>>
    /\ UNCHANGED <<filterVars, headerVars, disk, batchVars, mergeVars, muxVars, sigint>>

\* download_m3u8 returns, download_video returns, the path is appended
RunDownloadReturns ==
    /\ pipeline = "ffmpeg"
    /\ \E outcome \in OutcomesWithChild :
          /\ DownloadItem(RunOutputPath, outcome)
          /\ process' = ChildAfterDownload(outcome)
    /\ batch_i' = batch_i + 1
    /\ pipeline' = "download"
    /\ UNCHANGED <<batch_urls, bstage>>
    /\ UNCHANGED <<invocation, tpc, stdout_pipe, stderr_queue, stderr_lines, returned>>
    /\ UNCHANGED <<filterVars, headerVars, mergeVars, muxVars, sigint>>

\* after the loop: return when nothing was downloaded, else call
\* detect_and_merge_ts_files(downloaded_files, output_dir)
RunAfterLoop ==
    /\ pipeline = "download"
    /\ bstage = "loop"
    /\ batch_i = Len(batch_urls)
    /\ bstage' = "done"
    /\ IF NothingDownloaded(downloaded_files)
       THEN /\ pipeline' = "returned"
            /\ UNCHANGED mergeVars
       ELSE /\ pipeline' = "merge"
            /\ ts_downloaded' = downloaded_files
            /\ mstage' = "start"
            /\ UNCHANGED <<ts_groups, group_i, sorted_by_group, output_paths, merged_files>>
    /\ UNCHANGED <<batch_urls, batch_i, downloaded_files, outcomes, disk, sigint>>
    /\ UNCHANGED <<filterVars, headerVars, toolVars, muxVars>>

\* detect_and_merge_ts_files has returned: drop the .ts files if something
\* was merged, and call auto_mux_downloads(downloaded_files, output_dir)
RunAfterMerge ==
    /\ pipeline = "merge"
    /\ mstage = "done"
    /\ downloaded_files' = FilesForMux(downloaded_files, merged_files)
    /\ mux_downloaded' = FilesForMux(downloaded_files, merged_files)
    /\ xstage' = "start"
    /\ pipeline' = "mux"
    /\ UNCHANGED <<probe_i, profile, video_only, audio_only, audio_map, video_idx, pairs,
                   muxed_files>>
    /\ UNCHANGED <<batch_urls, batch_i, outcomes, bstage, disk, sigint>>
    /\ UNCHANGED <<filterVars, headerVars, toolVars, mergeVars>>

\* auto_mux_downloads has returned: download_videos returns
RunReturn ==
    /\ pipeline = "mux"
    /\ xstage = "done"
    /\ pipeline' = "returned"
    /\ UNCHANGED <<filterVars, headerVars, disk, batchVars, toolVars, mergeVars,
                   muxVars, sigint>>

\* an exception of detect_and_merge_ts_files or auto_mux_downloads leaves
\* download_videos; run_async logs it and goes on to its cleanup
RunRaises ==
    /\ \/ pipeline = "merge" /\ mstage = "raised"
       \/ pipeline = "mux" /\ xstage = "raised"
    /\ pipeline' = "raised"
    /\ UNCHANGED <<filterVars, headerVars, disk, batchVars, toolVars, mergeVars,
                   muxVars, sigint>>

\* a SIGINT while the download loop runs: the cancellation is requested and
\* nothing else happens, or KeyboardInterrupt is raised and main exits
Sigint ==
    /\ pipeline \in {"download", "ffmpeg"}
    /\ bstage = "loop"
    /\ \E effect \in (IF sigint = "none" THEN {"requested", "raised"} ELSE {"raised"}) :
          /\ sigint' = effect
          /\ pipeline' = IF effect = "raised" THEN "exited" ELSE pipeline
    /\ UNCHANGED <<filterVars, headerVars, disk, batchVars, toolVars, mergeVars, muxVars>>

\* the URLs of a run: a playlist, segments outside its directory, and
\* separate streams
UrlSegC == <<"/", "c", "/", "s", "0">> \o ExtTs
UrlStreamB == <<"/", "b", "/", "v">> \o ExtM4s
UrlStreamC == <<"/", "c", "/", "v">> \o ExtM4s

RunUrlSamples == {UrlPlaylistA, UrlSegB, UrlSegC, UrlStreamB, UrlStreamC}

\* a playlist, two segments of one group and a segment of another
UrlSegT == <<"/", "b", "/", "t">> \o ExtTs

SegmentUrlSamples == {UrlPlaylistA, UrlSegB, UrlSegC, UrlSegT}

(***************************************************************************)
(* HeadlessBrowserDownloader.download_videos from its argument to the end  *)
(* of the download loop: the filter, then the loop over filtered_urls.     *)
(***************************************************************************)
\* headers_map, downloaded_files = [], total = len(filtered_urls): the loop
\* starts on the filtered list
StartBatch ==
    /\ stage = "filtered"
    /\ bstage = "idle"
    /\ batch_urls' = filtered_urls
    /\ bstage' = "loop"
    /\ UNCHANGED <<batch_i, downloaded_files, outcomes, disk>>
    /\ UNCHANGED <<filterVars, headerVars, toolVars, mergeVars, muxVars, runVars>>

\* URLs the browser captures: playlists in lower and upper case, a direct
\* file, a direct file and an extension-less URL whose query names a
\* playlist, and a URL without any extension
UrlPlaylistUpper == DirA \o <<"X", ".", "M", "3", "U", "8">>
UrlMp4ManifestQuery == <<"/", "q", "/", "v">> \o ExtMp4 \o <<"?", "s", "=">> \o ExtM3u8
UrlListManifestQuery == <<"/", "p", "/", "l", "?", "f", "=">> \o ExtM3u8
UrlNoExt == <<"h", "t", "t", "p", ":", "/", "/", "h", "/", "x">>

ClassifySamples ==
    { UrlPlaylistA, UrlPlaylistUpper, UrlMp4A, UrlMp4ManifestQuery,
      UrlListManifestQuery, UrlNoExt }

(***************************************************************************)
(* Specifications.                                                         *)
(***************************************************************************)
\* the classification and filter of download_videos, for every URL list
InitFilter ==
    /\ video_urls \in SeqsUpTo(UrlSamples, MaxUrls)
    /\ m3u8_base_paths = {}
    /\ filtered_urls = <<>>
    /\ refiltered_urls = <<>>
    /\ stage = "start"
    /\ HeaderIdle
    /\ disk = {}
    /\ BatchIdle
    /\ ToolIdle
    /\ MergeIdle
    /\ MuxIdle
    /\ RunIdle

NextFilter == ReturnNoUrls \/ ClassifyAndFilter \/ Refilter

SpecFilter == InitFilter /\ [][NextFilter]_vars

\* the header reconstruction, for every captured dict, page and user agent
InitHeaders ==
    /\ target_url = <<>>
    /\ target_origin = <<>>
    /\ user_agent \in UserAgentSamples
    /\ raw_headers = <<>>
    /\ headers = EmptyDict
    /\ hstage = "new"
    /\ CaptureIdle
    /\ FilterIdle
    /\ disk = {}
    /\ BatchIdle
    /\ ToolIdle
    /\ MergeIdle
    /\ MuxIdle
    /\ RunIdle

NextHeaders == CollectVideoUrls \/ PrepareHeaders

\* one collection with its response tasks, up to headers_map
InitCapture ==
    /\ target_url = <<>>
    /\ target_origin = <<>>
    /\ user_agent \in UserAgentSamples
    /\ raw_headers = <<>>
    /\ headers = EmptyDict
    /\ hstage = "new"
    /\ self_video_urls = {}
    /\ video_request_meta = EmptyDict
    /\ responses = [i \in DOMAIN ResponseSamples |-> "none"]
    /\ headers_map = EmptyDict
    /\ FilterIdle
    /\ disk = {}
    /\ BatchIdle
    /\ ToolIdle
    /\ MergeIdle
    /\ MuxIdle
    /\ RunIdle

NextCapture ==
    \/ CollectVideoUrls
    \/ HandleResponse \/ StoreResponseMetadata \/ StoreFails
    \/ CollectReturns
    \/ ReturnNoUrls \/ ClassifyAndFilter
    \/ BuildHeadersMap

SpecCapture == InitCapture /\ [][NextCapture]_vars

SpecHeaders == InitHeaders /\ [][NextHeaders]_vars

\* the download batch, for every URL list and every outcome of every item
InitBatch ==
    /\ batch_urls \in SeqsUpTo(BatchUrlSamples, MaxBatch)
    /\ batch_i = 0
    /\ downloaded_files = <<>>
    /\ outcomes = <<>>
    /\ bstage = "loop"
    /\ disk = {}
    /\ FilterIdle
    /\ HeaderIdle
    /\ ToolIdle
    /\ MergeIdle
    /\ MuxIdle
    /\ RunIdle

NextBatch == DownloadNext \/ ReturnDownloaded

SpecBatch == InitBatch /\ [][NextBatch]_vars

\* one invocation of ffmpeg or ffprobe by one of the four functions; the
\* program's own steps are taken whenever they stay possible, the child
\* owes nothing
InitTool ==
    /\ invocation \in Invocations
    /\ tpc = IF invocation \in ChecksFfmpegFirst THEN "check" ELSE "spawn"
    /\ process = "none"
    /\ stdout_pipe = 0
    /\ stderr_queue = 0
    /\ stderr_lines = 0
    /\ returned = "none"
    /\ disk = {}
    /\ FilterIdle
    /\ HeaderIdle
    /\ BatchIdle
    /\ MergeIdle
    /\ MuxIdle
    /\ RunIdle

NextTool == ParentStep \/ ChildStep

SpecTool == InitTool /\ [][NextTool]_vars /\ WF_vars(ParentStep)

\* one call of detect_and_merge_ts_files on a list of distinct downloaded
\* files, all on disk, with or without a merged file of an earlier run
InitMerge ==
    /\ ts_downloaded \in DistinctSeqs(TsSamples, MaxTs)
    /\ \E earlier \in SUBSET {FileClipAMerged} : disk = Range(ts_downloaded) \cup earlier
    /\ ts_groups = <<>>
    /\ group_i = 0
    /\ sorted_by_group = <<>>
    /\ output_paths = <<>>
    /\ merged_files = <<>>
    /\ mstage = "start"
    /\ FilterIdle
    /\ HeaderIdle
    /\ BatchIdle
    /\ ToolIdle
    /\ MuxIdle
    /\ RunIdle

NextMerge ==
    ReturnNothingToMerge \/ GroupFiles \/ MergeGroup \/ MergeCheckRaises \/ ReturnMerged

SpecMerge == InitMerge /\ [][NextMerge]_vars

\* one call of auto_mux_downloads on a list of distinct downloaded files,
\* all on disk
InitMux ==
    /\ mux_downloaded \in DistinctSeqs(MediaSamples, MaxMedia)
    /\ disk = Range(mux_downloaded)
    /\ probe_i = 0
    /\ profile = NoProfile
    /\ video_only = <<>>
    /\ audio_only = <<>>
    /\ audio_map = <<>>
    /\ video_idx = 0
    /\ pairs = <<>>
    /\ muxed_files = <<>>
    /\ xstage = "start"
    /\ FilterIdle
    /\ HeaderIdle
    /\ BatchIdle
    /\ ToolIdle
    /\ MergeIdle
    /\ RunIdle

NextMux ==
    CheckBeforeMux \/ MuxCheckRaises \/ ProbeNext \/ StartPairing \/ PairNext \/ ReturnMuxed

SpecMux == InitMux /\ [][NextMux]_vars

\* one call of detect_and_merge_ts_files on segments of groups whose names
\* clean to the same name, with or without a merged file of an earlier run
InitMergeNames ==
    /\ ts_downloaded \in DistinctSeqs(TsNameSamples, MaxTs)
    /\ \E earlier \in SUBSET {FileClipAMerged} : disk = Range(ts_downloaded) \cup earlier
    /\ ts_groups = <<>>
    /\ group_i = 0
    /\ sorted_by_group = <<>>
    /\ output_paths = <<>>
    /\ merged_files = <<>>
    /\ mstage = "start"
    /\ FilterIdle
    /\ HeaderIdle
    /\ BatchIdle
    /\ ToolIdle
    /\ MuxIdle
    /\ RunIdle

SpecMergeNames == InitMergeNames /\ [][NextMerge]_vars

\* one call of detect_and_merge_ts_files on segments with digit-only stems
InitSortNumbers ==
    /\ ts_downloaded \in DistinctSeqs(NumberSamples, MaxTs)
    /\ disk = Range(ts_downloaded)
    /\ ts_groups = <<>>
    /\ group_i = 0
    /\ sorted_by_group = <<>>
    /\ output_paths = <<>>
    /\ merged_files = <<>>
    /\ mstage = "start"
    /\ FilterIdle
    /\ HeaderIdle
    /\ BatchIdle
    /\ ToolIdle
    /\ MuxIdle
    /\ RunIdle

SpecSortNumbers == InitSortNumbers /\ [][NextMerge]_vars

\* one call of auto_mux_downloads on files whose names differ in more than
\* a number, next to outputs that an earlier run may have left
InitMuxNames ==
    /\ mux_downloaded \in DistinctSeqs(NameSamples, MaxMedia)
    /\ \E earlier \in SUBSET {FileMovieMp4, FileMergedMp4} :
          disk = Range(mux_downloaded) \cup earlier
    /\ probe_i = 0
    /\ profile = NoProfile
    /\ video_only = <<>>
    /\ audio_only = <<>>
    /\ audio_map = <<>>
    /\ video_idx = 0
    /\ pairs = <<>>
    /\ muxed_files = <<>>
    /\ xstage = "start"
    /\ FilterIdle
    /\ HeaderIdle
    /\ BatchIdle
    /\ ToolIdle
    /\ MergeIdle
    /\ RunIdle

SpecMuxNames == InitMuxNames /\ [][NextMux]_vars

\* the filter and the download loop, for every list of distinct captured
\* URLs and every outcome of every item
InitClassify ==
    /\ video_urls \in DistinctSeqs(ClassifySamples, MaxClassify) \ {<<>>}
    /\ m3u8_base_paths = {}
    /\ filtered_urls = <<>>
    /\ refiltered_urls = <<>>
    /\ stage = "start"
    /\ disk = {}
    /\ HeaderIdle
    /\ BatchIdle
    /\ ToolIdle
    /\ MergeIdle
    /\ MuxIdle
    /\ RunIdle

NextClassify == ClassifyAndFilter \/ StartBatch \/ DownloadNext \/ ReturnDownloaded

SpecClassify == InitClassify /\ [][NextClassify]_vars

\* one run from the download loop on, for every list of distinct URLs that
\* the filter can leave
InitRun ==
    /\ batch_urls \in DistinctSeqs(RunUrlSamples, MaxBatch) \ {<<>>}
    /\ batch_i = 0
    /\ downloaded_files = <<>>
    /\ outcomes = <<>>
    /\ bstage = "loop"
    /\ disk = {}
    /\ pipeline = "download"
    /\ sigint = "none"
    /\ FilterIdle
    /\ HeaderIdle
    /\ ToolIdle
    /\ MergeIdle
    /\ MuxIdle

\* one run from the download loop on, for lists that hold segments of more
\* than one group
InitRunSegments ==
    /\ batch_urls \in DistinctSeqs(SegmentUrlSamples, MaxBatch) \ {<<>>}
    /\ batch_i = 0
    /\ downloaded_files = <<>>
    /\ outcomes = <<>>
    /\ bstage = "loop"
    /\ disk = {}
    /\ pipeline = "download"
    /\ sigint = "none"
    /\ FilterIdle
    /\ HeaderIdle
    /\ ToolIdle
    /\ MergeIdle
    /\ MuxIdle

\* one run on a list that holds segments of one group next to separate
\* video and audio streams, so that both combining stages have work
CombinedLists ==
    { <<UrlSegB, UrlSegC, UrlStreamB, UrlStreamC>>,
      <<UrlStreamB, UrlSegB, UrlStreamC, UrlSegC>>,
      <<UrlPlaylistA, UrlSegB, UrlSegC, UrlStreamB>> }

InitRunCombined ==
    /\ batch_urls \in CombinedLists
    /\ batch_i = 0
    /\ downloaded_files = <<>>
    /\ outcomes = <<>>
    /\ bstage = "loop"
    /\ disk = {}
    /\ pipeline = "download"
    /\ sigint = "none"
    /\ FilterIdle
    /\ HeaderIdle
    /\ ToolIdle
    /\ MergeIdle
    /\ MuxIdle

NextRun ==
    \/ RunDownloadDirect \/ RunDownloadWithoutChild \/ RunPopen \/ RunDownloadReturns
    \/ RunAfterLoop
    \/ ReturnNothingToMerge \/ GroupFiles \/ MergeGroup \/ MergeCheckRaises \/ ReturnMerged
    \/ RunAfterMerge
    \/ CheckBeforeMux \/ MuxCheckRaises \/ ProbeNext \/ StartPairing \/ PairNext \/ ReturnMuxed
    \/ RunReturn \/ RunRaises
    \/ Sigint

SpecRun == InitRun /\ [][NextRun]_vars

SpecRunSegments == InitRunSegments /\ [][NextRun]_vars

SpecRunCombined == InitRunCombined /\ [][NextRun]_vars

(***************************************************************************)
(* Claims.                                                                 *)
(***************************************************************************)
\* C1: once download_videos has filtered its input, every URL that is not a
\* playlist, whose path ends in .ts and starts with the directory prefix of a
\* playlist of the input is absent from filtered_urls, and every playlist of
\* the input is in filtered_urls.
C1_SegmentsUnderPlaylistExcluded ==
    stage = "filtered" =>
        /\ \A i, j \in DOMAIN video_urls :
            ( /\ IsM3u8Url(video_urls[i])
              /\ Contains(UrlPath(video_urls[i]), <<"/">>)
              /\ ~IsM3u8Url(video_urls[j])
              /\ EndsWith(UrlPath(video_urls[j]), ExtTs)
              /\ StartsWith(UrlPath(video_urls[j]), BasePathOf(video_urls[i])) )
            => video_urls[j] \notin Range(filtered_urls)
        /\ \A i \in DOMAIN video_urls :
            IsM3u8Url(video_urls[i]) => video_urls[i] \in Range(filtered_urls)

\* C2: the filter is idempotent: filtering the filtered list again returns
\* the filtered list itself.
C2_FilterIdempotent ==
    stage = "refiltered" => refiltered_urls = filtered_urls

\* C2 witness: a run in which the first pass removed a URL and kept another
C2_Witness ==
    /\ stage = "refiltered"
    /\ filtered_urls # <<>>
    /\ Len(filtered_urls) < Len(video_urls)

\* C3: the result of _prepare_download_headers always holds a non-empty
\* User-Agent, a non-empty Accept, a non-empty Accept-Encoding, and a Range
\* equal to bytes=0-.
C3_RequiredHeadersPresent ==
    hstage = "prepared" =>
        /\ {KeyUserAgent, KeyAccept, KeyAcceptEncoding, KeyRange} \subseteq DOMAIN headers
        /\ headers[KeyUserAgent] # <<>>
        /\ headers[KeyAccept] # <<>>
        /\ headers[KeyAcceptEncoding] # <<>>
        /\ headers[KeyRange] = <<"b", "y", "t", "e", "s", "=", "0", "-">>

\* C3 witness: no page, no user agent, a captured partial Range and a
\* captured Accept with an empty value
C3_Witness ==
    /\ hstage = "prepared"
    /\ target_url = <<>>
    /\ user_agent = <<>>
    /\ \E i \in DOMAIN raw_headers :
        Lower(raw_headers[i][1]) = NameRange /\ raw_headers[i][2] \notin {<<>>, ValBytesAll}
    /\ \E i \in DOMAIN raw_headers :
        Lower(raw_headers[i][1]) = NameAccept /\ raw_headers[i][2] = <<>>

\* the allowlist in canonical casing, written out
CanonicalAllowed ==
    { <<"A", "c", "c", "e", "p", "t">>,
      <<"A", "c", "c", "e", "p", "t", "-", "E", "n", "c", "o", "d", "i", "n", "g">>,
      <<"A", "c", "c", "e", "p", "t", "-", "L", "a", "n", "g", "u", "a", "g", "e">>,
      <<"R", "a", "n", "g", "e">>,
      <<"U", "s", "e", "r", "-", "A", "g", "e", "n", "t">>,
      <<"C", "o", "o", "k", "i", "e">>,
      <<"R", "e", "f", "e", "r", "e", "r">>,
      <<"O", "r", "i", "g", "i", "n">>,
      <<"S", "e", "c", "-", "F", "e", "t", "c", "h", "-", "S", "i", "t", "e">>,
      <<"S", "e", "c", "-", "F", "e", "t", "c", "h", "-", "M", "o", "d", "e">>,
      <<"S", "e", "c", "-", "F", "e", "t", "c", "h", "-", "D", "e", "s", "t">> }

\* C4: every key of the result is an allowlist name in canonical casing, and
\* no key of the result is, in any casing, the name of a captured header that
\* is not on the allowlist.
C4_KeysFromAllowlist ==
    hstage = "prepared" =>
        /\ DOMAIN headers \subseteq CanonicalAllowed
        /\ \A i \in DOMAIN raw_headers :
            Lower(raw_headers[i][1]) \notin Allowed
            => \A k \in DOMAIN headers : Lower(k) # Lower(raw_headers[i][1])

\* C4 witness: a captured header off the allowlist with a value, and an
\* allowed one that is not captured in canonical casing
C4_Witness ==
    /\ hstage = "prepared"
    /\ \E i \in DOMAIN raw_headers :
        Lower(raw_headers[i][1]) \notin Allowed /\ raw_headers[i][2] # <<>>
    /\ \E i \in DOMAIN raw_headers :
        /\ Lower(raw_headers[i][1]) \in Allowed
        /\ raw_headers[i][1] \notin CanonicalAllowed
        /\ raw_headers[i][2] # <<>>

\* the value of the last captured header named lname (in any casing) with a
\* non-empty value, or <<>>
CapturedValue(raw, lname) ==
    LET hits == {i \in DOMAIN raw : Lower(raw[i][1]) = lname /\ raw[i][2] # <<>>}
    IN  IF hits = {} THEN <<>>
        ELSE raw[CHOOSE i \in hits : \A j \in hits : j <= i][2]

\* C5 as stated: once a page is being collected, every result carries both
\* Referer and Origin: the captured one, else the page URL and its origin.
C5_RefererAndOriginAlwaysCarried ==
    (hstage = "prepared" /\ target_url # <<>>) =>
        /\ KeyReferer \in DOMAIN headers
        /\ KeyOrigin \in DOMAIN headers
        /\ CapturedValue(raw_headers, NameReferer) # <<>>
            => headers[KeyReferer] = CapturedValue(raw_headers, NameReferer)
        /\ CapturedValue(raw_headers, NameOrigin) # <<>>
            => headers[KeyOrigin] = CapturedValue(raw_headers, NameOrigin)
        /\ CapturedValue(raw_headers, NameReferer) = <<>>
            => headers[KeyReferer] = target_url

\* C5 amended: a Referer or Origin captured with a non-empty value is kept;
\* otherwise Referer is the page URL when a page is set, and Origin is
\* scheme://host of the page when the page URL has both; a header that can
\* be filled from neither is left out.
C5_RefererAndOriginFilledWhenKnown ==
    hstage = "prepared" =>
        LET cr == CapturedValue(raw_headers, NameReferer)
            co == CapturedValue(raw_headers, NameOrigin)
        IN  /\ cr # <<>> => (KeyReferer \in DOMAIN headers /\ headers[KeyReferer] = cr)
            /\ (cr = <<>> /\ target_url # <<>>)
                => (KeyReferer \in DOMAIN headers /\ headers[KeyReferer] = target_url)
            /\ (cr = <<>> /\ target_url = <<>>) => KeyReferer \notin DOMAIN headers
            /\ co # <<>> => (KeyOrigin \in DOMAIN headers /\ headers[KeyOrigin] = co)
            /\ (co = <<>> /\ target_url = PageHttp)
                => ( /\ KeyOrigin \in DOMAIN headers
                     /\ headers[KeyOrigin] = <<"h", "t", "t", "p", ":", "/", "/", "h">> )
            /\ (co = <<>> /\ target_url = PageHttpsUpper)
                => ( /\ KeyOrigin \in DOMAIN headers
                     /\ headers[KeyOrigin] = <<"h", "t", "t", "p", "s", ":", "/", "/", "H">> )
            /\ (co = <<>> /\ target_url \in {<<>>, PageFile})
                => KeyOrigin \notin DOMAIN headers

\* C5 witness: a page with scheme and host, a captured Referer, no captured
\* Origin
C5_Witness ==
    /\ hstage = "prepared"
    /\ target_url = PageHttp
    /\ CapturedValue(raw_headers, NameReferer) # <<>>
    /\ \A i \in DOMAIN raw_headers : Lower(raw_headers[i][1]) # NameOrigin
    /\ KeyOrigin \in DOMAIN headers

\* the paths of the items of log whose fetch or ffmpeg run produced the file
RECURSIVE ProducedPaths(_)
ProducedPaths(log) ==
    IF log = <<>> THEN <<>>
    ELSE IF Head(log).kind = "ok"
         THEN <<Head(log).path>> \o ProducedPaths(Tail(log))
         ELSE ProducedPaths(Tail(log))

\* C6: in a download batch the items are tried one after the other whatever
\* the earlier ones did, the result list is at every moment the paths of the
\* items tried so far that were produced, in the order of their URLs, and
\* the batch returns only when every item has been tried.
C6_FailureExcludesOnlyThatItem ==
    /\ Len(outcomes) = batch_i
    /\ downloaded_files = ProducedPaths(outcomes)
    /\ bstage = "done" => Len(outcomes) = Len(batch_urls)

\* C6 witness: a returned batch of three items whose first item failed and
\* whose later items were produced
C6_Witness ==
    /\ bstage = "done"
    /\ Len(outcomes) = 3
    /\ outcomes[1].kind # "ok"
    /\ outcomes[2].kind = "ok"
    /\ outcomes[3].kind = "ok"
    /\ Len(downloaded_files) = 2

\* C7: every invocation of ffmpeg or ffprobe by download_m3u8, merge_ts_files,
\* mux_streams or _probe_stream_profile ends: the function returns, whatever
\* the child does, because a child that does not exit is killed at the
\* timeout and the function then reports a failure.
C7_EveryInvocationReturns == <>(tpc = "returned")

\* the combined file exists and every original is gone, or every original
\* remains and there is no combined file
AllOrNothing(files, output_path) ==
    \/ output_path \in disk /\ \A i \in DOMAIN files : files[i] \notin disk
    \/ output_path \notin disk /\ \A i \in DOMAIN files : files[i] \in disk

\* C8: after detect_and_merge_ts_files has processed a group, either the
\* combined output file exists and every original member has been removed,
\* or every original member remains and no combined output file of the
\* group exists, whatever the outcome of the ffmpeg run.
C8_ConcatenationAllOrNothing ==
    group_i > 0 => AllOrNothing(sorted_by_group[group_i], output_paths[group_i])

\* the orders in which a list of distinct files can arrive
ArrivalOrders(s) ==
    {p \in [DOMAIN s -> Range(s)] : \A i, j \in DOMAIN s : i # j => p[i] # p[j]}

\* the keys of a grouping with the set of members of each
MemberSets(groups) ==
    {[name |-> groups[i].name, files |-> Range(groups[i].files)] : i \in DOMAIN groups}

\* the keys of a grouping with the sorted members of each
SortedMembers(groups) ==
    {[name |-> groups[i].name, files |-> SortTsFiles(groups[i].files)] : i \in DOMAIN groups}

\* C9: for every permutation of the input file list _group_ts_files yields
\* the same keys with the same member sets, and _sort_ts_files yields the
\* same order of the members of every group, also when two members carry
\* the same sequence number.
C9_GroupingAndSortingOrderIndependent ==
    mstage \in {"loop", "done"} =>
        \A p \in ArrivalOrders(ts_downloaded) :
            /\ MemberSets(GroupTsFiles(TsFilesOf(p))) = MemberSets(ts_groups)
            /\ SortedMembers(GroupTsFiles(TsFilesOf(p))) = SortedMembers(ts_groups)
            /\ \A i \in DOMAIN sorted_by_group :
                  [name |-> ts_groups[i].name, files |-> sorted_by_group[i]]
                      \in SortedMembers(GroupTsFiles(TsFilesOf(p)))

\* the video's normalized stem is the key under which the audio was grouped
ExactMatch(pair) == NormalizeStem(PathStem(pair.video)) = GroupBaseOf(pair.audio)

\* C10: in one run of auto_mux_downloads no file takes part in more than
\* one pair, whether a pair came from the exact match of the stems or from
\* the first audio left, and whether or not an earlier pair was muxed.
C10_MuxPairingInjective ==
    \A i, j \in DOMAIN pairs :
        i # j => {pairs[i].video, pairs[i].audio} \cap {pairs[j].video, pairs[j].audio} = {}

\* two pairs, the first of which failed to mux, one by exact match and one
\* by the fallback
C10_Witness ==
    /\ Len(pairs) >= 2
    /\ ~pairs[1].muxed
    /\ \E i \in DOMAIN pairs : ExactMatch(pairs[i])
    /\ \E i \in DOMAIN pairs : ~ExactMatch(pairs[i])

\* the files of a list whose normalized stem is base
WithBase(files, base) == {i \in DOMAIN files : GroupBaseOf(files[i]) = base}

\* the video has at least as many audio-only files of its stem in the input
\* as there are video-only files of that stem
EnoughAudioFor(video_path) ==
    Cardinality(WithBase(audio_only, NormalizeStem(PathStem(video_path))))
        >= Cardinality({i \in DOMAIN video_only :
                           NormalizeStem(PathStem(video_only[i]))
                               = NormalizeStem(PathStem(video_path))})

\* C11: every video-only file that auto_mux_downloads has visited, and for
\* whose normalized stem the input holds at least as many audio-only files
\* as video-only files, is paired with an audio-only file of that stem,
\* whatever the order of the list; and a pair made by the fallback has a
\* video for whose stem the input holds no audio-only file.
C11_SameStemPairedWheneverAvailable ==
    xstage \in {"pair", "done"} =>
        /\ \A k \in 1..video_idx :
              EnoughAudioFor(video_only[k]) =>
                  \E i \in DOMAIN pairs :
                      pairs[i].video = video_only[k] /\ ExactMatch(pairs[i])
        /\ \A i \in DOMAIN pairs :
              ~ExactMatch(pairs[i]) =>
                  WithBase(audio_only, NormalizeStem(PathStem(pairs[i].video))) = {}

\* the outputs of the pairs that were muxed, in the order of the pairs
RECURSIVE MuxedOutputs(_)
MuxedOutputs(ps) ==
    IF ps = <<>> THEN <<>>
    ELSE IF Head(ps).muxed
    THEN <<Head(ps).output>> \o MuxedOutputs(Tail(ps))
    ELSE MuxedOutputs(Tail(ps))

Smaller(a, b) == IF a <= b THEN a ELSE b

\* the file that pair i took from this path is gone: nothing is at the path,
\* or what is there was written by a later pair as its output
GoneOrWrittenAnew(path, i) ==
    \/ path \notin disk
    \/ \E j \in DOMAIN pairs : j > i /\ pairs[j].output = path

InMuxedPair(f) ==
    \E i \in DOMAIN pairs : pairs[i].muxed /\ f \in {pairs[i].video, pairs[i].audio}

\* C13: in every run of auto_mux_downloads the number of pairs that were
\* muxed is at most the smaller of the numbers of video-only and audio-only
\* inputs, and every video-only or audio-only file outside the muxed pairs
\* is still on disk and no pair has written its output over it.
C13_MuxedPairsBoundedAndOthersUntouched ==
    /\ Len(muxed_files) <= Smaller(Len(video_only), Len(audio_only))
    /\ \A f \in Range(video_only) \cup Range(audio_only) :
          ~InMuxedPair(f) =>
              /\ f \in disk
              /\ \A i \in DOMAIN pairs : pairs[i].output # f

\* the function has returned after a pair that was muxed and a pair that
\* failed, whose two files are left
C13_Witness ==
    /\ xstage = "done"
    /\ \E i \in DOMAIN pairs : pairs[i].muxed
    /\ \E i \in DOMAIN pairs :
          /\ ~pairs[i].muxed
          /\ ~InMuxedPair(pairs[i].video)
          /\ ~InMuxedPair(pairs[i].audio)

\* C14: in a download batch of more than one item no two items are given
\* the same output path, also after the .m3u8 name of a playlist is
\* rewritten to .mp4 and when the default file name is used.
C14_BatchOutputPathsDistinct ==
    Len(batch_urls) > 1 =>
        \A i, j \in DOMAIN outcomes : i # j => outcomes[i].path # outcomes[j].path

\* a finished batch that tried the same playlist twice and a direct file of
\* the playlist's name, the playlist's name rewritten to .mp4
C14_Witness ==
    /\ bstage = "done"
    /\ Len(outcomes) = 3
    /\ \E i, j, k \in DOMAIN outcomes :
          /\ i # j
          /\ batch_urls[i] = UrlPlaylistA
          /\ batch_urls[j] = UrlPlaylistA
          /\ batch_urls[k] = UrlMp4I
          /\ EndsWith(outcomes[i].path, ExtMp4)
          /\ Stem(outcomes[i].path) = <<"i", "_">> \o IntStr(i - 1)

\* C15: the stages of HeadlessBrowserDownloader.download_videos run in
\* sequence.  The reassembly has started only when every item of the batch
\* has succeeded or failed, the muxing only when the reassembly is through
\* with every group, and while a later stage runs no ffmpeg child of the
\* download stage is alive; while such a child is alive neither later stage
\* has started.
C15_StagesRunInSequence ==
    /\ mstage # "idle" => bstage = "done" /\ Len(outcomes) = Len(batch_urls)
    /\ xstage # "idle" => mstage = "done" /\ group_i = Len(ts_groups)
    /\ (mstage # "idle" \/ xstage # "idle") => process \notin Alive
    /\ (pipeline = "ffmpeg" \/ bstage = "loop") => mstage = "idle" /\ xstage = "idle"

\* a run that downloaded a playlist through ffmpeg, attempted a group of
\* segments and has probed a file for the muxing
C15_Witness ==
    /\ pipeline = "mux"
    /\ process \in Exited
    /\ group_i >= 1
    /\ probe_i >= 1

\* C16: when the download loop is over and no item of the batch was
\* downloaded, download_videos has returned to its caller (it is in no later
\* stage and has not ended the program), nothing is in downloaded_files, and
\* neither detect_and_merge_ts_files nor auto_mux_downloads has been called.
EveryItemFailed ==
    /\ bstage = "done"
    /\ \A i \in DOMAIN outcomes : outcomes[i].kind # "ok"

C16_ZeroSuccessReturnsWithoutLaterStages ==
    EveryItemFailed =>
        /\ pipeline = "returned"
        /\ downloaded_files = <<>>
        /\ MergeIdle
        /\ MuxIdle

\* a batch of a playlist whose ffmpeg failed, an item whose fetch broke and
\* an item whose download raised
C16_Witness ==
    /\ EveryItemFailed
    /\ Len(outcomes) = 3
    /\ \E i, j, k \in DOMAIN outcomes :
          /\ outcomes[i].kind = "nonzero_exit_partial"
          /\ outcomes[j].kind = "stream_broken"
          /\ outcomes[k].kind = "raises"

\* C17: when detect_and_merge_ts_files has returned, every group of at least
\* two segment files was attempted exactly once, whatever became of the
\* groups before it, and merged_files lists, in order, exactly the outputs of
\* the attempts that succeeded: their outputs exist and their segments are
\* deleted, while the segments of a failed attempt are all left.
RECURSIVE NamesOf(_)
NamesOf(files) ==
    IF files = <<>> THEN <<>>
    ELSE <<GroupNameOf(Head(files))>> \o NamesOf(Tail(files))

AttemptSucceeded(i) == Range(sorted_by_group[i]) \cap disk = {}

RECURSIVE OutputsOfSucceeded(_)
OutputsOfSucceeded(k) ==
    IF k = 0 THEN <<>>
    ELSE IF AttemptSucceeded(k)
         THEN Append(OutputsOfSucceeded(k - 1), output_paths[k])
         ELSE OutputsOfSucceeded(k - 1)

\* for the .ts files and the group name of each: as many attempts as names
\* that two files share, and for each such name one attempt, on its files
AttemptedOnce(ts_files, names) ==
    LET shared == {n \in Range(names) :
                      Cardinality({i \in DOMAIN names : names[i] = n}) >= 2}
    IN  /\ Len(sorted_by_group) = Cardinality(shared)
        /\ \A n \in shared :
              Cardinality({i \in DOMAIN sorted_by_group :
                              Range(sorted_by_group[i]) =
                                  {ts_files[k] : k \in {j \in DOMAIN names : names[j] = n}}}) = 1

C18_AbortLeavesNothingRunning ==
    /\ sigint # "none" => group_i = 0 /\ probe_i = 0 /\ pairs = <<>>
    /\ pipeline = "exited" => process \notin Alive

\* C19: a URL is handled as a playlist exactly when its path ends in .m3u8.
\* The base prefixes recorded by the filter are the directories of the URLs
\* whose path ends in .m3u8, an item that only ffmpeg can have failed has
\* such a path, and an item that only the fetch can have failed has not.
PathIsManifest(url) == EndsWith(Lower(UrlPath(url)), ExtM3u8)

OnlyToolbox == M3u8Outcomes \ Mp4Outcomes
OnlyFetch == Mp4Outcomes \ M3u8Outcomes

C19_PlaylistIffPathIsManifest ==
    /\ stage = "filtered" =>
          m3u8_base_paths =
              { BasePathOf(video_urls[i]) :
                  i \in {j \in DOMAIN video_urls :
                            /\ PathIsManifest(video_urls[j])
                            /\ Contains(UrlPath(video_urls[j]), <<"/">>)} }
    /\ \A i \in DOMAIN outcomes :
          /\ outcomes[i].kind \in OnlyToolbox => PathIsManifest(batch_urls[i])
          /\ outcomes[i].kind \in OnlyFetch => ~PathIsManifest(batch_urls[i])

\* C20: the output path of an item that is handled as a playlist never ends
\* in .m3u8, in whatever letter case.
C20_PlaylistOutputNeverManifest ==
    \A i \in DOMAIN outcomes :
        IsM3u8Url(batch_urls[i]) => ~EndsWith(Lower(outcomes[i].path), ExtM3u8)

\* C21: without a usable ffmpeg the reassembly and the muxing do nothing
\* and raise nothing.  Neither detect_and_merge_ts_files nor
\* auto_mux_downloads is left by an exception; a group whose
\* check_ffmpeg_available is False gets no output file, loses no segment and
\* is not in merged_files; and an auto_mux_downloads that returned with two
\* files or more and no probe made has no pair, an empty result and every
\* file it was handed still there.
NextOutputPath ==
    JoinPath(OutputDir, GenerateMergedFilename(ts_groups[group_i + 1].name, disk))

C21_NoToolboxNoEffect ==
    /\ mstage # "raised"
    /\ xstage # "raised"
    /\ (mstage = "loop" /\ group_i < Len(ts_groups)) =>
          /\ DiskAfterMerge(disk, NextOutputPath, "ffmpeg_missing") = disk
          /\ ~MergeTsFilesReturn("ffmpeg_missing", NextOutputPath \in disk)
    /\ (xstage = "done" /\ Len(mux_downloaded) >= 2 /\ probe_i = 0) =>
          /\ pairs = <<>>
          /\ muxed_files = <<>>
          /\ Range(mux_downloaded) \subseteq disk

\* C22: the output path of every pair is named after the longest common
\* prefix of the two normalized stems, its trailing separators dropped, or
\* "merged" when nothing is left; it is the first of <name>.mp4,
\* <name>_1.mp4, ... that does not exist when the pair is formed, so it is
\* neither a file that exists then nor one of the two sources.
IsPrefixOf(p, t) == Len(p) <= Len(t) /\ SubSeq(t, 1, Len(p)) = p

LongestCommonPrefix(a, b) ==
    CHOOSE p \in {SubSeq(a, 1, k) : k \in 0..Len(a)} :
        /\ IsPrefixOf(p, b)
        /\ \A k \in 0..Len(a) :
              IsPrefixOf(SubSeq(a, 1, k), b) => k <= Len(p)

ExpectedMuxName(video_path, audio_path) ==
    OrMerged(RStrip(LongestCommonPrefix(NormalizeStem(PathStem(video_path)),
                                        NormalizeStem(PathStem(audio_path))),
                    {"-", "_", "."}))

NumberedMuxPath(name, k) ==
    JoinPath(OutputDir,
             IF k = 0 THEN name \o ExtMp4 ELSE name \o <<"_">> \o IntStr(k) \o ExtMp4)

FirstFreeNamed(p, d) ==
    \E k \in 0..Cardinality(d) :
        /\ p.output = NumberedMuxPath(ExpectedMuxName(p.video, p.audio), k)
        /\ \A j \in 0..(k - 1) : NumberedMuxPath(ExpectedMuxName(p.video, p.audio), j) \in d

C22_MuxOutputNamedAndFree ==
    [][ Len(pairs') = Len(pairs) + 1 =>
            /\ FirstFreeNamed(pairs'[Len(pairs')], disk)
            /\ pairs'[Len(pairs')].output \notin disk
            /\ pairs'[Len(pairs')].output \notin
                   {pairs'[Len(pairs')].video, pairs'[Len(pairs')].audio} ]_vars

\* movie-video.m4s and movie-audio.m4s muxed into movie_1.mp4 next to a
\* movie.mp4 that was there before
C22_Witness ==
    /\ xstage = "done"
    /\ FileMovieMp4 \in disk
    /\ \E i \in DOMAIN pairs :
          /\ pairs[i].video = FileMovieVideo
          /\ pairs[i].audio = FileMovieAudio
          /\ pairs[i].muxed
          /\ pairs[i].output = JoinPath(OutputDir, Movie \o <<"_", "1">> \o ExtMp4)

\* C23: every group is written to <cleaned group key>_merged.mp4 or to that
\* name with a numeric suffix, and no two groups of one run are given the
\* same output path.
NumberedMergedPath(name, k) ==
    JoinPath(OutputDir,
             IF k = 0 THEN name \o <<"_">> \o MergedWord \o ExtMp4
             ELSE name \o <<"_">> \o MergedWord \o <<"_">> \o IntStr(k) \o ExtMp4)

NamedAfterGroup(i) ==
    \E k \in 0..(Cardinality(disk) + Len(ts_downloaded)) :
        output_paths[i] = NumberedMergedPath(CleanName(ts_groups[i].name), k)

C23_GroupOutputsNamedAndDistinct ==
    /\ \A i \in DOMAIN output_paths : NamedAfterGroup(i)
    /\ \A i, j \in DOMAIN output_paths : i # j => output_paths[i] # output_paths[j]

\* C23, as the code has it: every group is written to the first of
\* <cleaned group key>_merged.mp4, <...>_merged_1.mp4, ... that does not
\* exist when the group is reached, so no concatenation writes over a file
\* that exists, and two groups are given the same path only when the earlier
\* one failed and left no file there.
FirstFreeMergedPath(path, name, d) ==
    \E k \in 0..Cardinality(d) :
        /\ path = NumberedMergedPath(name, k)
        /\ \A j \in 0..(k - 1) : NumberedMergedPath(name, j) \in d

C23_GroupOutputsNamedAndFree ==
    /\ [][ Len(output_paths') = Len(output_paths) + 1 =>
              /\ FirstFreeMergedPath(output_paths'[Len(output_paths')],
                                     CleanName(ts_groups[Len(output_paths')].name), disk)
              /\ output_paths'[Len(output_paths')] \notin disk ]_vars
    /\ [](\A i, j \in DOMAIN output_paths :
              (i < j /\ output_paths[i] = output_paths[j]) =>
                  ~AttemptSucceeded(i))

\* the groups clipA_ and clipA- of one run, the first merged into
\* clipA_merged.mp4 and the second into clipA_merged_1.mp4
C23_Witness ==
    /\ mstage = "done"
    /\ Len(output_paths) = 2
    /\ CleanName(ts_groups[1].name) = CleanName(ts_groups[2].name)
    /\ output_paths[1] = FileClipAMerged
    /\ output_paths[2] = NumberedMergedPath(Clip \o <<"A">>, 1)
    /\ merged_files = output_paths


\* a URL subsumed by a playlist of urls: not a playlist itself, its path ends
\* in .ts and starts with the directory prefix of a playlist
SubsumedSegment(url, urls) ==
    /\ ~IsM3u8Url(url)
    /\ EndsWith(Lower(UrlPath(url)), ExtTs)
    /\ \E base_path \in M3u8BasePaths(urls) : StartsWith(UrlPath(url), base_path)

WithoutSubsumed(urls) == SelectSeq(urls, LAMBDA url : ~SubsumedSegment(url, urls))

\* C24: the filtered list of download_videos is its input with exactly the
\* subsumed segment URLs removed: every playlist and every other URL that is
\* not subsumed is kept, as often as it occurs and in its original order.
C24_OutputIsInputMinusSubsumed ==
    stage \in {"filtered", "refiltered"} =>
        filtered_urls = WithoutSubsumed(video_urls)


\* the stem without the index the download appended: the suffix _<digits> is
\* the index when a digit stands before it
StemWithoutIndex(name) ==
    IF /\ StripIndexSuffix(name) # name
       /\ StripIndexSuffix(name) # <<>>
       /\ StripIndexSuffix(name)[Len(StripIndexSuffix(name))] \in Digits
    THEN StripIndexSuffix(name)
    ELSE name

\* the sequence number a segment's name carries: the digits at the end of
\* the stem without the appended index
EmbeddedNumber(name) == ToInt(SubSeq(name, TrailingDigitsStart(name), Len(name)))

SequenceNumber(ts_file) == EmbeddedNumber(StemWithoutIndex(Stem(ts_file)))

\* C25: the members of every segment group are concatenated in the order of
\* nondecreasing embedded sequence number, the appended download index left
\* out, whatever the shape of the stem, digit-only stems such as 10_5
\* included.
C25_GroupSortedBySequenceNumber ==
    \A g \in DOMAIN sorted_by_group :
        \A i, j \in DOMAIN sorted_by_group[g] :
            i < j => SequenceNumber(sorted_by_group[g][i]) <= SequenceNumber(sorted_by_group[g][j])


\* for the .ts files and the group name of each: a file that shares its
\* name with no other is on disk and in no concatenation
OnlyMembersUntouched(ts_files, names) ==
    \A k \in DOMAIN names :
        Cardinality({j \in DOMAIN names : names[j] = names[k]}) = 1 =>
            /\ ts_files[k] \in disk
            /\ \A g \in DOMAIN sorted_by_group : ts_files[k] \notin Range(sorted_by_group[g])

\* C26: with fewer than two .ts files in its input detect_and_merge_ts_files
\* returns an empty list, calls merge_ts_files for nothing and deletes
\* nothing; and in every run a file that is the only member of its group is
\* in no concatenation and is not deleted.
C26_NoOpBelowTwoAndSingletonsUntouched ==
    /\ Len(TsFilesOf(ts_downloaded)) < 2 =>
          /\ mstage \in {"idle", "start", "done"}
          /\ merged_files = <<>>
          /\ sorted_by_group = <<>>
          /\ output_paths = <<>>
          /\ Range(ts_downloaded) \subseteq disk
    /\ OnlyMembersUntouched(TsFilesOf(ts_downloaded), NamesOf(TsFilesOf(ts_downloaded)))

\* clipB_0.ts left next to the merged clipA group
C26_Witness ==
    /\ mstage = "done"
    /\ Range(ts_downloaded) = {FileClipA0, FileClipA1, FileClipB0}
    /\ merged_files = <<FileClipAMerged>>
    /\ FileClipA0 \notin disk
    /\ FileClipB0 \in disk


\* a downloaded file that a successful concatenation of this run consumed
FoldedIntoMerge(f) ==
    \E g \in DOMAIN sorted_by_group : AttemptSucceeded(g) /\ f \in Range(sorted_by_group[g])

WithoutFolded(files) == SelectSeq(files, LAMBDA f : ~FoldedIntoMerge(f))

\* C27: the list download_videos hands to auto_mux_downloads is the list of
\* downloaded files without exactly the segments that a successful
\* concatenation consumed: a segment of a failed group or of a group of one,
\* which is still on disk, is in the list.
C27_WorkingListMinusFoldedSegments ==
    (pipeline = "mux" /\ xstage = "start") =>
        mux_downloaded = WithoutFolded(ts_downloaded)


\* a probe result that takes its file out of the pairing: no result, no
\* streams, or streams of both kinds
ExcludedByProbe(p) ==
    \/ p = NoProfile
    \/ p[1] = 0 /\ p[2] = 0
    \/ p[1] > 0 /\ p[2] > 0

\* the probed files that are in neither list
ExcludedFiles ==
    {mux_downloaded[k] : k \in 1..probe_i} \ (Range(video_only) \cup Range(audio_only))

PairedFiles == {pairs[i].video : i \in DOMAIN pairs} \cup {pairs[i].audio : i \in DOMAIN pairs}

\* C28: a file whose probe gives no result, no streams, or streams of both
\* kinds enters neither video_only nor audio_only; and a file that is in
\* neither list is never handed to mux_streams and never deleted.
C28_ExcludedFilesLeftAlone ==
    /\ [][ (probe_i' = probe_i + 1 /\ ExcludedByProbe(profile')) =>
              (video_only' = video_only /\ audio_only' = audio_only) ]_vars
    /\ [](ExcludedFiles \cap PairedFiles = {})
    /\ [][ ExcludedFiles \cap disk \subseteq disk' ]_vars

\* a pair was muxed and its sources deleted, while the file probed last,
\* with streams of both kinds, is in no pair and still on disk
C28_Witness ==
    /\ xstage = "done"
    /\ pairs # <<>>
    /\ pairs[1].muxed
    /\ pairs[1].video \notin disk
    /\ profile = <<1, 1>>
    /\ mux_downloaded[Len(mux_downloaded)] \in ExcludedFiles \cap disk


\* the pair that a step appends to pairs
NewPairSources == {pairs'[Len(pairs')].video, pairs'[Len(pairs')].audio}

\* C29: the outputs of the combining stages are final.  A file that the
\* concatenation produced is never in the list that auto_mux_downloads
\* probes, is in no pair, and is not deleted while the muxing runs; the
\* sources of a pair are never outputs of an earlier mux of the run, and no
\* concatenation is made once a mux has produced a file.
C29_CombinationOutputsTerminal ==
    /\ [](Range(merged_files) \cap (Range(mux_downloaded) \cup PairedFiles) = {})
    /\ [][ xstage # "idle" => (Range(merged_files) \cap disk) \subseteq disk' ]_vars
    /\ [][ Len(pairs') = Len(pairs) + 1 => NewPairSources \cap Range(muxed_files) = {} ]_vars
    /\ [][ Len(sorted_by_group') = Len(sorted_by_group) + 1 => muxed_files = <<>> ]_vars

\* a run that concatenated a group of segments and then muxed a pair of
\* streams: both outputs exist, the concatenated file was not handed on
C29_Witness ==
    /\ pipeline = "returned"
    /\ merged_files # <<>>
    /\ muxed_files # <<>>
    /\ probe_i = 2
    /\ merged_files[1] \in disk
    /\ muxed_files[1] \in disk


\* the headers every download needs, with Referer and Origin of the page
\* as far as the page has them
ResolvedHeaders(h, page, origin) ==
    /\ {KeyUserAgent, KeyAccept, KeyAcceptEncoding, KeyRange} \subseteq DOMAIN h
    /\ h[KeyUserAgent] # <<>>
    /\ h[KeyAccept] # <<>>
    /\ h[KeyAcceptEncoding] # <<>>
    /\ h[KeyRange] = ValBytesAll
    /\ page # <<>> => (KeyReferer \in DOMAIN h /\ h[KeyReferer] # <<>>)
    /\ origin # <<>> => (KeyOrigin \in DOMAIN h /\ h[KeyOrigin] # <<>>)

\* the positions of the tasks of the responses for url
TasksOf(url) ==
    {responses[i] : i \in {j \in DOMAIN responses : ResponseSamples[j].url = url}}

\* C30: however the response tasks interleave with the collection, when
\* download_videos has built headers_map every URL of filtered_urls has an
\* entry with the resolved headers, and a URL that is in the captured set
\* while none of its captures has completed (pending or failed) has the
\* headers built from an empty capture, never none.
C30_EveryFilteredUrlHasResolvedHeaders ==
    hstage = "mapped" =>
        /\ DOMAIN headers_map = Range(filtered_urls)
        /\ \A url \in Range(filtered_urls) :
              /\ ResolvedHeaders(headers_map[url], target_url, target_origin)
              /\ "stored" \notin TasksOf(url) =>
                    headers_map[url] =
                        PrepareDownloadHeaders(<<>>, target_url, target_origin, user_agent)
              /\ "stored" \in TasksOf(url) => headers_map[url] = video_request_meta[url]

\* the playlist was captured with a partial Range, one capture for the file
\* failed and the other is still pending when the map is built
C30_Witness ==
    /\ hstage = "mapped"
    /\ responses[1] = "stored"
    /\ responses[3] = "failed"
    /\ responses[4] = "awaiting"
    /\ Range(filtered_urls) = {UrlPlaylistA, UrlMp4A}
    /\ headers_map[UrlPlaylistA][KeyReferer] = <<"v">>
    /\ UrlMp4A \notin DOMAIN video_request_meta
    /\ headers_map[UrlMp4A][KeyReferer] = target_url

====
